---- MODULE Spec2Model ----
(***************************************************************************)
(* Model of the ride-pooling matcher and driver dispatcher of              *)
(* services/MatchingService.js.                                            *)
(*                                                                         *)
(* Units.  The JavaScript code computes with IEEE doubles; the model       *)
(* computes with integers in fixed point:                                  *)
(*   latitude, longitude   micro-degrees                                   *)
(*   distance              0.01 km   ("ckm")                               *)
(*   duration              0.01 min  ("cmin")                              *)
(*   fareShare             0.1 currency unit (baseFare * 0.6 has one       *)
(*                         decimal); every other fare is a whole unit      *)
(* All points of the model lie on one meridian, where the haversine        *)
(* formula reduces to R * |dLat|, and their latitudes are 6295 micro-      *)
(* degrees (699.97 m) apart or a multiple of that: every distance is then  *)
(* a multiple of 0.70 km to within 0.003 km per step, so that rounding to  *)
(* 0.01 km loses nothing, and no distance or sum of distances is near a    *)
(* threshold the code compares it with (1, 2, 3, 5, 10 km; 15 min).        *)
(* Two distances that are equal on this grid can differ as doubles; where  *)
(* the code orders drivers by distance, the model orders them by the       *)
(* rounding of the doubles too (DoubleError).                              *)
(***************************************************************************)
EXTENDS Integers, Sequences, FiniteSets, TLC

(***************************************************************************)
(* Configuration constants set by the constructor.                         *)
(***************************************************************************)
MAX_DETOUR_DISTANCE_KM == 5
MAX_DETOUR_TIME_MINUTES == 15
MAX_PICKUP_DISTANCE_KM == 3
MAX_POOL_SIZE == 4

(***************************************************************************)
(* Bounds of the model.                                                    *)
(***************************************************************************)
MaxRides == 2
MaxDrivers == 2

(***************************************************************************)
(* JavaScript values.                                                      *)
(***************************************************************************)
\* null / undefined
Null == "null"

\* The number NaN, as the value of a score (every real score is in 0..100).
NaN == -1

Abs(x) == IF x < 0 THEN -x ELSE x
Max(a, b) == IF a >= b THEN a ELSE b
Min(a, b) == IF a <= b THEN a ELSE b

\* Math.round(num / den) for den > 0: floor(x + 0.5), halves go up.
MathRound(num, den) == (2 * num + den) \div (2 * den)

(***************************************************************************)
(* Geometry.                                                               *)
(***************************************************************************)
\* The point k steps of 6295 micro-degrees north of (12.9, 77.58).
Point(k) == [latitude |-> 12900000 + 6295 * k, longitude |-> 77580000]

\* calculateDistance: haversine with R = 6371 km.  On one meridian dLon = 0,
\* so a = sin^2(dLat/2), c = |dLat| and the distance is R * |dLat|:
\* 6371 * pi / 180 = 111.19 km per degree, 0.011119 ckm per micro-degree,
\* rounded to the nearest ckm.
calculateDistance(point1, point2) ==
    (11119 * Abs(point2.latitude - point1.latitude) + 500000) \div 1000000

RECURSIVE calculateTotalRouteDistance(_)
calculateTotalRouteDistance(waypoints) ==
    IF Len(waypoints) < 2 THEN 0
    ELSE calculateDistance(waypoints[1].location, waypoints[2].location)
         + calculateTotalRouteDistance(Tail(waypoints))

(***************************************************************************)
(* RouteEstimator.  A response of the routing provider is                  *)
(*   [kind |-> "error"]      the request failed (axios.get rejects)        *)
(*   [kind |-> "empty"]      no routes in the answer                       *)
(*   [kind |-> "malformed"]  routes[0].legs[0] is missing (TypeError)      *)
(*   [kind |-> "unvalued"]   legs[0].distance and legs[0].duration are     *)
(*                           objects without a numeric value               *)
(*   [kind |-> "ok", distance |-> metres, duration |-> seconds]            *)
(***************************************************************************)
\* The fallback estimate at 3 minutes per km instead of the 2 of line 263.
FallbackRoute_ThreeMinutesPerKm(origin, destination) ==
    LET distance == calculateDistance(origin, destination)
    IN  [distance |-> distance, duration |-> distance * 3, source |-> "fallback"]

FallbackRoute(origin, destination) ==
    LET distance == calculateDistance(origin, destination)
    IN  [distance |-> distance, duration |-> distance * 2, source |-> "fallback"]

\* Lines 247-252 with leg.distance.value and leg.duration.value undefined:
\* undefined / 1000 and undefined / 60 are NaN, and nothing is thrown.
UnvaluedRoute == [distance |-> NaN, duration |-> NaN, source |-> "provider"]

getRouteDetails(apiKey, response, origin, destination) ==
    IF apiKey # "" /\ response.kind = "ok"
    THEN [distance |-> response.distance \div 10,          \* value / 1000 km
          duration |-> (response.duration * 100) \div 60,  \* value / 60 min
          source   |-> "provider"]
    ELSE IF apiKey # "" /\ response.kind = "unvalued"
    THEN UnvaluedRoute
    ELSE FallbackRoute(origin, destination)

(***************************************************************************)
(* WaypointSequencer.                                                      *)
(***************************************************************************)
Waypoints(newRide, existingRide) ==
    << [location |-> existingRide.pickup_location, type |-> "pickup", passenger |-> "existing"],
       [location |-> newRide.pickup_location, type |-> "pickup", passenger |-> "new"],
       [location |-> existingRide.destination_location, type |-> "drop", passenger |-> "existing"],
       [location |-> newRide.destination_location, type |-> "drop", passenger |-> "new"] >>

\* Array.prototype.find: the first element satisfying the test.
Find(waypoints, passenger, type) ==
    LET hits == {k \in 1..Len(waypoints) :
                    waypoints[k].passenger = passenger /\ waypoints[k].type = type}
    IN  waypoints[CHOOSE k \in hits : \A j \in hits : k <= j]

\* The null ordering ("not compatible") and the null route.
NoOrder == << >>
NoRoute == [waypoints |-> NoOrder]

\* findOptimalWaypointOrder without the test of the gap between the drops
\* (line 171).
findOptimalWaypointOrder_Sequential(waypoints) ==
    LET pickup1 == Find(waypoints, "existing", "pickup")
        pickup2 == Find(waypoints, "new", "pickup")
        drop1   == Find(waypoints, "existing", "drop")
        drop2   == Find(waypoints, "new", "drop")
        distanceToNewPickup == calculateDistance(pickup1.location, pickup2.location)
        routeDistance  == calculateDistance(pickup1.location, drop1.location)
        detourDistance == calculateDistance(pickup1.location, pickup2.location)
                          + calculateDistance(pickup2.location, drop1.location)
    IN  IF distanceToNewPickup < 200 \/ detourDistance - routeDistance < 100
        THEN <<pickup1, pickup2, drop1, drop2>>
        ELSE NoOrder

\* findOptimalWaypointOrder taking the new passenger up after the existing
\* passenger's drop.
findOptimalWaypointOrder_DropsBeforePickup(waypoints) ==
    LET pickup1 == Find(waypoints, "existing", "pickup")
        pickup2 == Find(waypoints, "new", "pickup")
        drop1   == Find(waypoints, "existing", "drop")
        drop2   == Find(waypoints, "new", "drop")
        distanceToNewPickup == calculateDistance(pickup1.location, pickup2.location)
        routeDistance  == calculateDistance(pickup1.location, drop1.location)
        detourDistance == calculateDistance(pickup1.location, pickup2.location)
                          + calculateDistance(pickup2.location, drop1.location)
    IN  IF distanceToNewPickup < 200 \/ detourDistance - routeDistance < 100
        THEN <<pickup1, drop1, pickup2, drop2>>
        ELSE NoOrder

findOptimalWaypointOrder(waypoints) ==
    LET pickup1 == Find(waypoints, "existing", "pickup")
        pickup2 == Find(waypoints, "new", "pickup")
        drop1   == Find(waypoints, "existing", "drop")
        drop2   == Find(waypoints, "new", "drop")
        distanceToNewPickup  == calculateDistance(pickup1.location, pickup2.location)
        distanceBetweenDrops == calculateDistance(drop1.location, drop2.location)
        routeDistance  == calculateDistance(pickup1.location, drop1.location)
        detourDistance == calculateDistance(pickup1.location, pickup2.location)
                          + calculateDistance(pickup2.location, drop1.location)
    IN  IF distanceToNewPickup < 200
        THEN IF distanceBetweenDrops < 200
             THEN <<pickup1, pickup2, drop1, drop2>>
             ELSE <<pickup1, pickup2, drop2, drop1>>
        ELSE IF detourDistance - routeDistance < 100
             THEN <<pickup1, pickup2, drop1, drop2>>
             ELSE NoOrder

\* The pooled route, or NoRoute for the null getOptimalPoolRoute returns when
\* there is no ordering.
getOptimalPoolRoute(newRide, existingRide) ==
    LET optimalOrder == findOptimalWaypointOrder(Waypoints(newRide, existingRide))
    IN  IF optimalOrder = NoOrder THEN NoRoute
        ELSE LET totalDistance == calculateTotalRouteDistance(optimalOrder)
             IN  [distance |-> totalDistance,
                  duration |-> totalDistance * 2,
                  pickupDistance |-> calculateDistance(existingRide.pickup_location,
                                                       newRide.pickup_location),
                  pickupTime |-> 10,
                  waypoints |-> optimalOrder]

(***************************************************************************)
(* CompatibilityScorer and FareSplitter.                                   *)
(***************************************************************************)
\* Math.round(n1/d1 + n2/d2) for d1, d2 > 0, without forming n1 * d2: the
\* whole parts are added, and the fractional parts decide the last unit.
RoundSum(n1, d1, n2, d2) ==
    LET q1 == n1 \div d1
        r1 == n1 % d1
        q2 == n2 \div d2
        r2 == n2 % d2
    IN  q1 + q2 + ((2 * r1 * d2 + 2 * r2 * d1 + d1 * d2) \div (2 * d1 * d2))

\* 100 - (dd/MAXD)*40 - (dt/MAXT)*30 - (pd/MAXP)*20 as the fraction
\* PenaltyNum / PenaltyDen, the arguments being in ckm and cmin.
PenaltyDen ==
    100 * MAX_DETOUR_DISTANCE_KM * MAX_DETOUR_TIME_MINUTES * MAX_PICKUP_DISTANCE_KM
PenaltyNum(detourDistance, detourTime, pickupDistance) ==
    100 * PenaltyDen
    - 40 * detourDistance * MAX_DETOUR_TIME_MINUTES * MAX_PICKUP_DISTANCE_KM
    - 30 * detourTime * MAX_DETOUR_DISTANCE_KM * MAX_PICKUP_DISTANCE_KM
    - 20 * pickupDistance * MAX_DETOUR_DISTANCE_KM * MAX_DETOUR_TIME_MINUTES

\* The efficiency bonus is max(0, 10 - (pooled/original - 1) * 50):
\*   original = 0, pooled = 0:  0/0 is NaN, Math.max(0, NaN) is NaN, and the
\*                              score stays NaN through round, min and max;
\*   original = 0, pooled > 0:  the quotient is Infinity and the bonus 0;
\*   otherwise the bonus is max(0, 60 * original - 50 * pooled) / original.
calculateCompatibilityScore(detourDistance, detourTime, pickupDistance, originalRoute, pooledRoute) ==
    LET num == PenaltyNum(detourDistance, detourTime, pickupDistance)
        o   == originalRoute.distance
        p   == pooledRoute.distance
    IN  IF o = 0 /\ p = 0 THEN NaN
        ELSE LET score == IF o = 0 THEN MathRound(num, PenaltyDen)
                          ELSE RoundSum(num, PenaltyDen, Max(0, 60 * o - 50 * p), o)
             IN  Max(0, Min(100, score))

\* calculateFareShare with the floor of line 296 at 80% of the base fare.
calculateFareShare_FlooredAt80(newRide, existingRide, compatibility) ==
    LET baseFare  == newRide.estimated_fare
        finalFare == MathRound(15 * baseFare + 2 * compatibility.detourDistance, 20)
    IN  Max(10 * finalFare, 8 * baseFare)

\* round(baseFare * 0.75 + detourDistance * 10), at least baseFare * 0.6.
\* compatibility.detourDistance is in ckm; the result is in tenths.
calculateFareShare(newRide, existingRide, compatibility) ==
    LET baseFare  == newRide.estimated_fare
        finalFare == MathRound(15 * baseFare + 2 * compatibility.detourDistance, 20)
    IN  Max(10 * finalFare, 6 * baseFare)

\* round(averageFare - averageFare * 0.75), averageFare = (new + existing) / 2.
calculateSavings(newRideFare, existingRideFare) ==
    MathRound(newRideFare + existingRideFare, 8)

\* WithinLimits without the detour-time test of line 87.
WithinLimits_IgnoresDetourTime(detourDistance, detourTime, pickupDistance) ==
    /\ detourDistance <= 100 * MAX_DETOUR_DISTANCE_KM
    /\ pickupDistance <= 100 * MAX_PICKUP_DISTANCE_KM

\* WithinLimits without the pickup-distance test of line 88.
WithinLimits_IgnoresPickupDistance(detourDistance, detourTime, pickupDistance) ==
    /\ detourDistance <= 100 * MAX_DETOUR_DISTANCE_KM
    /\ detourTime <= 100 * MAX_DETOUR_TIME_MINUTES

\* Lines 85-88: isCompatible.
WithinLimits(detourDistance, detourTime, pickupDistance) ==
    /\ detourDistance <= 100 * MAX_DETOUR_DISTANCE_KM
    /\ detourTime <= 100 * MAX_DETOUR_TIME_MINUTES
    /\ pickupDistance <= 100 * MAX_PICKUP_DISTANCE_KM

\* The body of calculateRouteCompatibility after the two routes are known.
\* With no pooled route, pooledRoute.distance throws a TypeError and the
\* catch block returns {isCompatible: false, score: 0}.  With a solo route
\* of distance NaN both detours are NaN: every comparison with them is false
\* and every number computed from them is NaN.
CompatibilityResult(newRide, existingRide, originalRoute, pooledRoute) ==
    IF pooledRoute = NoRoute
    THEN [isCompatible |-> FALSE, score |-> 0]
    ELSE IF originalRoute.distance = NaN
    THEN [isCompatible |-> FALSE,
          detourDistance |-> NaN,
          detourTime |-> NaN,
          pickupTime |-> MathRound(pooledRoute.pickupTime, 1),
          score |-> NaN,
          savings |-> calculateSavings(newRide.estimated_fare,
                                       existingRide.estimated_fare)]
    ELSE LET detourDistance == pooledRoute.distance - originalRoute.distance
             detourTime     == pooledRoute.duration - originalRoute.duration
         IN  [isCompatible |->
                  WithinLimits(detourDistance, detourTime, pooledRoute.pickupDistance),
              \* Math.round(d * 100) / 100: d is already in 0.01 km
              detourDistance |-> detourDistance,
              detourTime |-> MathRound(detourTime, 100),
              pickupTime |-> MathRound(pooledRoute.pickupTime, 1),
              score |-> calculateCompatibilityScore(detourDistance, detourTime,
                            pooledRoute.pickupDistance, originalRoute, pooledRoute),
              savings |-> calculateSavings(newRide.estimated_fare,
                                           existingRide.estimated_fare)]

calculateRouteCompatibility(apiKey, response, newRide, existingRide) ==
    CompatibilityResult(newRide, existingRide,
        getRouteDetails(apiKey, response, existingRide.pickup_location,
                        existingRide.destination_location),
        getOptimalPoolRoute(newRide, existingRide))

(***************************************************************************)
(* Array.prototype.sort.  It is stable, and sorts by the comparator when   *)
(* the comparator is consistent.  A comparator that returns NaN for some   *)
(* pair is not, and the order is then implementation-defined: any          *)
(* permutation of the elements.                                            *)
(***************************************************************************)
\* The positions 1..Len(keys) in ascending order of key, equal keys in the
\* order of their positions: the insertion of position i after every
\* position whose key is not greater.
RECURSIVE InsertPosition(_, _, _)
InsertPosition(i, sorted, keys) ==
    IF sorted = << >> THEN <<i>>
    ELSE IF keys[i] < keys[Head(sorted)] THEN <<i>> \o sorted
         ELSE <<Head(sorted)>> \o InsertPosition(i, Tail(sorted), keys)

RECURSIVE SortedPositions(_, _)
SortedPositions(n, keys) ==
    IF n = 0 THEN << >>
    ELSE InsertPosition(n, SortedPositions(n - 1, keys), keys)

\* list sorted by a comparator (a, b) => key(a) - key(b).
StableSort(list, keys) ==
    LET order == SortedPositions(Len(list), keys)
    IN  [i \in 1..Len(list) |-> list[order[i]]]

Orderings(list) ==
    LET n == Len(list)
        orders == {f \in [1..n -> 1..n] : \A i, j \in 1..n : i # j => f[i] # f[j]}
    IN  {[i \in 1..n |-> list[f[i]]] : f \in orders}

(***************************************************************************)
(* PoolMatcher: the steps of findAvailablePools.                           *)
(***************************************************************************)
\* SkipsRide without the capacity test of line 24.
SkipsRide_IgnoresCapacity(rideRequest, existingRide) ==
    \/ ~existingRide.allow_pooling
    \/ existingRide.female_only /\ rideRequest.user_gender # "female"
    \/ rideRequest.female_only /\ existingRide.user_gender # "female"

\* SkipsRide without the test of the request's own female_only flag (line 32).
SkipsRide_IgnoresRequestFlag(rideRequest, existingRide) ==
    \/ ~existingRide.allow_pooling
    \/ Len(existingRide.pool_passengers) >= MAX_POOL_SIZE - 1
    \/ existingRide.female_only /\ rideRequest.user_gender # "female"

\* Lines 23-34: the candidate is skipped before any route work.
SkipsRide(rideRequest, existingRide) ==
    \/ ~existingRide.allow_pooling
    \/ Len(existingRide.pool_passengers) >= MAX_POOL_SIZE - 1
    \/ existingRide.female_only /\ rideRequest.user_gender # "female"
    \/ rideRequest.female_only /\ existingRide.user_gender # "female"

\* Lines 43-59: the entry pushed for a compatible ride.
PoolEntry(rideRequest, existingRide, compatibility) ==
    [poolId |-> existingRide.ride_id,
     fareShare |-> calculateFareShare(rideRequest, existingRide, compatibility),
     estimatedPickupTime |-> compatibility.pickupTime,
     detourDistance |-> compatibility.detourDistance,
     detourTime |-> compatibility.detourTime,
     compatibilityScore |-> compatibility.score,
     savings |-> compatibility.savings]

\* b.compatibilityScore - a.compatibilityScore is NaN when either score is,
\* and the sort reads a NaN from its comparator as +0.  An entry with a NaN
\* score then compares equal to every entry, which is a consistent
\* comparator only if the other scores are all equal.
ConsistentComparator(compatiblePools) ==
    LET scores == {compatiblePools[k].compatibilityScore : k \in 1..Len(compatiblePools)}
    IN  NaN \in scores => Cardinality(scores \ {NaN}) <= 1

\* Line 64: sort((a, b) => b.compatibilityScore - a.compatibilityScore), as
\* the set of the orders it may return.  The sort is stable; with a NaN score
\* and a consistent comparator all entries compare equal and the order is
\* kept; with an inconsistent comparator the order is implementation-defined.
SortByScore(compatiblePools) ==
    IF ~ConsistentComparator(compatiblePools)
    THEN Orderings(compatiblePools)
    ELSE IF \E k \in 1..Len(compatiblePools) : compatiblePools[k].compatibilityScore = NaN
    THEN {compatiblePools}
    ELSE {StableSort(compatiblePools,
            [k \in 1..Len(compatiblePools) |-> 0 - compatiblePools[k].compatibilityScore])}

(***************************************************************************)
(* DriverDispatcher.                                                       *)
(***************************************************************************)
\* IsAvailable without the current_ride test of line 323.
IsAvailable_IgnoresCurrentRide(driver) == driver.status = "online"

\* Line 323: the driver is online and has no current ride.
IsAvailable(driver) == driver.status = "online" /\ driver.current_ride = Null

\* Line 330: within 10 km.
WithinRange(distance) == distance <= 1000

\* Line 334, Math.round(distance * 3), of the distance calculateDistance
\* returned, which is not rounded to the ckm: 3 * 6371 * pi / 180 km per
\* degree are 3335.8478 * 10^-7 minutes per micro-degree.
ArrivalMinutes(point1, point2) ==
    LET dLat    == Abs(point2.latitude - point1.latitude)
        minutes == 3335 * dLat + (8478 * dLat) \div 10000
    IN  MathRound(minutes, 10000000)

\* Lines 322-337: the loop of findAvailableDrivers.  {...driver} is kept
\* as the field driver.
RECURSIVE NearbyDrivers(_, _)
NearbyDrivers(rideRequest, drivers) ==
    IF drivers = << >> THEN << >>
    ELSE LET driver   == Head(drivers)
             distance == calculateDistance(rideRequest.pickup_location, driver.location)
             rest     == NearbyDrivers(rideRequest, Tail(drivers))
         IN  IF ~IsAvailable(driver) THEN rest
             ELSE IF WithinRange(distance)
                  THEN << [driver |-> driver,
                           distanceToPickup |-> distance,
                           estimatedArrival |->
                               ArrivalMinutes(rideRequest.pickup_location,
                                              driver.location)] >> \o rest
                  ELSE rest

\* A latitude is a double.  For a latitude of u micro-degrees, u >= 10^6, in
\* the binade [2^e, 2^(e+1)) degrees, the doubles are 2^(e-52) degrees apart
\* and the latitude is the double nearest to u / 10^6.
Binade(u) == CHOOSE e \in 0..7 : 2^e * 1000000 <= u /\ u < 2^(e + 1) * 1000000

\* (r * 2^n) % 10^6, by doubling.
RECURSIVE DoubledModulo(_, _)
DoubledModulo(r, n) ==
    IF n = 0 THEN r ELSE DoubledModulo((2 * r) % 1000000, n - 1)

\* The double of the latitude minus u / 10^6, in units of 2^-52
\* micro-degrees: u * 2^(52-e) / 10^6 is rounded to the nearest integer.
DoubleError(u) ==
    LET e == Binade(u)
        r == DoubledModulo(u % 1000000, 52 - e)
    IN  (IF r <= 500000 THEN 0 - r ELSE 1000000 - r) * 2^e

\* Line 208 subtracts the two doubles, exactly for latitudes this close;
\* the difference is off from the difference of the decimal latitudes by
\* the difference of their errors.  What follows is increasing in |dLat|.
LatitudeError(point1, point2) ==
    IF point2.latitude = point1.latitude THEN 0
    ELSE (IF point2.latitude > point1.latitude THEN 1 ELSE -1)
         * (DoubleError(point2.latitude) - DoubleError(point1.latitude))

\* findAvailableDrivers without the sort of line 340.
findAvailableDrivers_Unsorted(rideRequest, drivers) ==
    NearbyDrivers(rideRequest, drivers)

\* Line 340: sort((a, b) => a.distanceToPickup - b.distanceToPickup), on
\* the distances as computed, not rounded: in the order of |dLat|, and
\* where the decimal latitudes are equally far, in the order of the errors
\* of the doubles.  The sort is stable.
findAvailableDrivers(rideRequest, drivers) ==
    LET nearbyDrivers == NearbyDrivers(rideRequest, drivers)
        pickup == rideRequest.pickup_location
        byError == StableSort(nearbyDrivers,
                       [k \in 1..Len(nearbyDrivers) |->
                           LatitudeError(pickup, nearbyDrivers[k].driver.location)])
    IN  StableSort(byError,
            [k \in 1..Len(byError) |->
                Abs(byError[k].driver.location.latitude - pickup.latitude)])

NoAssignment == [driver |-> Null]

\* assignOptimalDriver choosing the best-rated of the nearby drivers.
assignOptimalDriver_ByRating(rideRequest, drivers) ==
    LET nearby == findAvailableDrivers(rideRequest, drivers)
    IN  IF Len(nearby) = 0 THEN NoAssignment
        ELSE LET best == CHOOSE k \in 1..Len(nearby) :
                             \A j \in 1..Len(nearby) :
                                 nearby[j].driver.rating <= nearby[k].driver.rating
                 selectedDriver == nearby[best]
             IN  [driver |-> selectedDriver,
                  estimatedArrival |-> selectedDriver.estimatedArrival,
                  distance |-> MathRound(selectedDriver.distanceToPickup, 10)]

\* The assignment, or NoAssignment for null.  estimatedArrival is the number
\* n of the string "n minutes", distance the number of tenths of the string
\* "x.y km away" (toFixed(1)).
assignOptimalDriver(rideRequest, drivers) ==
    LET nearby == findAvailableDrivers(rideRequest, drivers)
    IN  IF Len(nearby) = 0 THEN NoAssignment
        ELSE LET selectedDriver == nearby[1]
             IN  [driver |-> selectedDriver,
                  estimatedArrival |-> selectedDriver.estimatedArrival,
                  distance |-> MathRound(selectedDriver.distanceToPickup, 10)]

(***************************************************************************)
(* Inputs.  A latitude is given as its number of 0.7 km steps.             *)
(***************************************************************************)
Genders == {"female", "male"}

\* The requests and rides of a findAvailablePools call.
PassengerLists == {<<1, 2>>, <<1, 2, 3>>}

\* (user_gender, female_only) of a requester or of a ride's owner.
GenderFlags == {<<"male", FALSE>>, <<"female", FALSE>>, <<"female", TRUE>>}

PoolRequests ==
    {[user_gender |-> g[1], female_only |-> g[2],
      pickup_location |-> Point(0), destination_location |-> Point(0),
      estimated_fare |-> 300] :
        g \in GenderFlags}

\* Every ride of a list allows pooling: one that does not is skipped, as a
\* full one is.  A ride goes nowhere or 1.4 km from the request's
\* pickup, or starts 3.5 km away and ends there or at that pickup.  Each
\* ride has its driver record and its pool_passengers list; the fields that
\* lines 45-51 only copy into the entry are left out.
PoolLegs == {<<0, 0>>, <<0, 2>>, <<5, 0>>, <<5, 5>>}
PoolRides ==
    {[user_gender |-> g[1], female_only |-> g[2], allow_pooling |-> TRUE,
      pool_passengers |-> p,
      pickup_location |-> Point(leg[1]), destination_location |-> Point(leg[2]),
      estimated_fare |-> 300] :
        g \in GenderFlags, p \in PassengerLists, leg \in PoolLegs}

\* The lists of at most n records of S.
ListsOf(S, n) == UNION {[1..len -> S] : len \in 0..n}

\* The lists of at most MaxRides rides, each with its position as ride_id.
RideLists ==
    {[i \in 1..Len(l) |-> [ride_id |-> i] @@ l[i]] : l \in ListsOf(PoolRides, MaxRides)}

\* The pairs of a direct calculateRouteCompatibility call.
RouteSteps == {0, 2, 3, 5, 29}
RouteRides ==
    [pickup_location : {Point(k) : k \in RouteSteps},
     destination_location : {Point(k) : k \in RouteSteps},
     estimated_fare : {300}]

\* What the routing provider may answer (metres, seconds).
ProviderResponses ==
    {[kind |-> "error"], [kind |-> "empty"], [kind |-> "malformed"],
     [kind |-> "unvalued"]}
    \cup {[kind |-> "ok", distance |-> 0, duration |-> 0],
          [kind |-> "ok", distance |-> 20300, duration |-> 600]}

\* The drivers of a findAvailableDrivers or assignOptimalDriver call.
DriverSteps == {3, 5, 14, 21}
Drivers ==
    [status : {"online", "offline"}, current_ride : {Null, "ride"},
     location : {Point(k) : k \in DriverSteps}, rating : {3, 5}]

\* The lists of at most MaxDrivers drivers, each with its position as id.
DriverLists ==
    {[i \in 1..Len(l) |-> [id |-> i] @@ l[i]] : l \in ListsOf(Drivers, MaxDrivers)}

\* The points k steps north of the pole: NorthPoint(0) is the pole itself,
\* latitude 90; NorthPoint(k) for k > 0 has a latitude above 90.
NorthPoint(k) == [latitude |-> 90000000 + 6295 * k, longitude |-> 77580000]

\* Lines 206-211 read latitude and longitude and test nothing; the range a
\* coordinate is meant to have.
ValidPoint(point) ==
    /\ point.latitude >= -90000000 /\ point.latitude <= 90000000
    /\ point.longitude >= -180000000 /\ point.longitude <= 180000000

\* The origin and destination of a direct getRouteDetails call.
RoutePoints == {Point(k) : k \in RouteSteps}

\* The pairs of points of a direct calculateDistance call: in town, and at
\* the pole.
DistancePairs ==
    ({Point(k) : k \in {0, 3, 29}} \X {Point(k) : k \in {0, 3, 29}})
    \cup ({NorthPoint(k) : k \in 0..2} \X {NorthPoint(k) : k \in 0..2})

\* The arguments of a direct findAvailableDrivers call at the pole.
PolarRequests == {[pickup_location |-> NorthPoint(k)] : k \in {0, 1}}
PolarDrivers ==
    [status : {"online"}, current_ride : {Null},
     location : {NorthPoint(0), NorthPoint(2)}, rating : {5}]
PolarDriverLists ==
    {[i \in 1..Len(l) |-> [id |-> i] @@ l[i]] : l \in ListsOf(PolarDrivers, MaxDrivers)}

\* The arguments of a calculateFareShare call: fares, and detours in ckm.
MaxFare == 12
Detours == {0, 70, 210, 490}

\* A negative detour, as lines 81-82 give when the solo route is the
\* provider's 20.3 km and the pooled route is 1.4 km by haversine.
NegativeDetours == {-1890}

(***************************************************************************)
(* State.                                                                  *)
(***************************************************************************)
VARIABLES
    GOOGLE_MAPS_API_KEY,  \* the service's only field that is not a constant
    op,                   \* the method being called, "none" between calls
    pc,                   \* where the call stands: idle, loop, await, done
    rideRequest,          \* argument: the new request
    existingRides,        \* argument: the candidate rides
    availableDrivers,     \* argument: the drivers
    idx,                  \* findAvailablePools: position of the for loop
    existingRide,         \* the ride of this iteration, or the argument of
                          \*   calculateRouteCompatibility
    compatiblePools,      \* findAvailablePools: the entries pushed so far
    originalRoute,        \* calculateRouteCompatibility: locals, of the
    pooledRoute,          \*   ride evaluated last
    compatibility,        \* calculateRouteCompatibility: its return value
    nearbyDrivers,        \* assignOptimalDriver: what findAvailableDrivers returned
    result,               \* the value the call returned
    points,               \* arguments of getRouteDetails or calculateDistance
    providerResponse,     \* getRouteDetails: what axios.get gave, once it has
    work,                 \* what the call has done so far: calls of
                          \*   getRouteDetails (routes), requests sent to the
                          \*   provider, calls of findOptimalWaypointOrder
                          \*   (orders) and of calculateCompatibilityScore
    caller,               \* the caller's own view of the arguments it gave
    Ride,                 \* server: the stored rides (the Ride collection)
    Driver,               \* server: the stored drivers (the Driver collection)
    DriverOrder,          \* server: the ids of the stored drivers, in the order
                          \*   of the collection
    dispatch,             \* server: per ride, the dispatch timer of POST /rides
    handler,              \* server: per call, the request being handled
    process,              \* server: the Node process, running or exited
    Pool                  \* server: the stored pool-join requests (the Pool collection)

vars == <<GOOGLE_MAPS_API_KEY, op, pc, rideRequest, existingRides, availableDrivers,
          idx, existingRide, compatiblePools, originalRoute, pooledRoute, compatibility,
          nearbyDrivers, result, points, providerResponse, work, caller,
          Ride, Driver, DriverOrder, dispatch, handler, process, Pool>>

args == <<rideRequest, existingRides, availableDrivers>>
locals == <<existingRide, originalRoute, pooledRoute, compatibility>>
others == <<availableDrivers, nearbyDrivers>>

calls == <<points, providerResponse, work, caller>>

\* What the server of part_000 keeps: two collections of the database, the
\* asynchronous functions that are between two of their awaits, and its
\* process.
server == <<Ride, Driver, DriverOrder, dispatch, handler, process>>
pools == <<Pool>>
matcher == <<GOOGLE_MAPS_API_KEY, op, pc, args, idx, compatiblePools, locals, nearbyDrivers,
             result, calls>>

None == [none |-> TRUE]

NoWork == [routes |-> 0, requests |-> 0, orders |-> 0, scores |-> 0]

Cleared ==
    /\ op = "none"
    /\ pc = "idle"
    /\ rideRequest = None
    /\ existingRides = << >>
    /\ availableDrivers = << >>
    /\ idx = 0
    /\ existingRide = None
    /\ compatiblePools = << >>
    /\ originalRoute = None
    /\ pooledRoute = None
    /\ compatibility = None
    /\ nearbyDrivers = << >>
    /\ result = None
    /\ points = None
    /\ providerResponse = None
    /\ work = NoWork
    /\ caller = None

(***************************************************************************)
(* The server's documents.  A document of the database is modelled as the  *)
(* record of the stored fields the handlers read and write.  What a        *)
(* handler holds is a Mongoose document of it: a schema path is read       *)
(* through an accessor of the document's prototype, a nested path reads    *)
(* as an object, an ObjectId path reads as an ObjectId.                    *)
(***************************************************************************)
\* The rides that can be booked and the drivers that are registered.
RideIds == {"r1", "r2"}
DriverIds == {"d1", "d2"}

\* A ride that has not been booked: Ride.findById gives null.
NoRide == [status |-> "none", driver |-> Null, pool_passengers |-> << >>]

\* POST /rides, lines 223-235: the document that is inserted.
Booked == [status |-> "PENDING", driver |-> Null, pool_passengers |-> << >>]

\* A driver that is not stored: Driver.findById gives null.
NoDriver ==
    [status |-> "none", current_ride |-> Null, rating |-> 0,
     location |-> [latitude |-> 0, longitude |-> 0]]

\* Lines 153-155 and 488-490: a driver is stored offline, with no ride, the
\* rating 5 and the position (0, 0).
Registered ==
    [status |-> "offline", current_ride |-> Null, rating |-> 5,
     location |-> [latitude |-> 0, longitude |-> 0]]

\* PUT /drivers/status, line 528: the status and the position of the body.
\* The statuses are two of the three of the schema (Driver.js line 36; the
\* server tests a status against 'online' only, and busy is to it what
\* offline is); d1 reports a position 2.1 km from the pickup and d2 one
\* 14.7 km from it.
DriverStatuses == {"online", "offline"}
DriverLocation(d) == IF d = "d1" THEN Point(3) ELSE Point(21)

\* Every ride of the server model is picked up at Point(0).
BookedRequest == [pickup_location |-> Point(0)]

\* The join requests that can be made, by the _id of their documents.
RequestOrder == <<"q1", "q2", "q3">>
RequestIds == {RequestOrder[i] : i \in 1..Len(RequestOrder)}

\* A join request that has not been made: Pool.findById gives null.
NoPoolRequest == [status |-> "none", poolId |-> Null]

\* The timer of a ride: not set.
NoDispatch == [pc |-> "idle", availableDrivers |-> << >>, outcome |-> "none"]

\* The requests the server handles at one time.
MaxCalls == 2
Calls == 1..MaxCalls

\* No request: the call is free.
NoRequest ==
    [kind |-> "none", pc |-> "idle", caller |-> Null, target |-> Null, status |-> Null,
     key |-> Null, ride |-> Null, saves |-> {}, code |-> 0]

\* The constructor: the key is read from the environment, once.  The
\* server starts on empty collections.
Init ==
    /\ GOOGLE_MAPS_API_KEY \in {"", "key"}
    /\ Cleared
    /\ Ride = [r \in RideIds |-> NoRide]
    /\ Driver = [d \in DriverIds |-> NoDriver]
    /\ DriverOrder = << >>
    /\ dispatch = [r \in RideIds |-> NoDispatch]
    /\ handler = [c \in Calls |-> NoRequest]
    /\ process = "running"
    /\ Pool = [q \in RequestIds |-> NoPoolRequest]

(***************************************************************************)
(* findAvailablePools(rideRequest, existingRides).                         *)
(***************************************************************************)
CallFindAvailablePools ==
    /\ pc = "idle"
    /\ \E request \in PoolRequests, rides \in RideLists :
          /\ rideRequest' = request
          /\ existingRides' = rides
          /\ caller' = <<request, rides, << >> >>
    /\ op' = "findAvailablePools"
    /\ pc' = "loop"
    /\ idx' = 1
    /\ compatiblePools' = << >>
    /\ work' = NoWork
    /\ UNCHANGED <<GOOGLE_MAPS_API_KEY, server, pools, others, locals, result, points, providerResponse>>

\* SkipRide with the route requested before the filters are applied.
SkipRide_AfterRouteWork ==
    /\ op = "findAvailablePools" /\ pc = "loop" /\ idx <= Len(existingRides)
    /\ SkipsRide(rideRequest, existingRides[idx])
    /\ existingRide' = existingRides[idx]
    /\ originalRoute' = None
    /\ pooledRoute' = None
    /\ compatibility' = None
    /\ idx' = idx + 1
    /\ work' = [work EXCEPT !.routes = @ + 1]
    /\ UNCHANGED <<GOOGLE_MAPS_API_KEY, server, pools, op, pc, args, compatiblePools, nearbyDrivers, result,
                   points, providerResponse, caller>>

\* Lines 23-34: continue.
SkipRide ==
    /\ op = "findAvailablePools" /\ pc = "loop" /\ idx <= Len(existingRides)
    /\ SkipsRide(rideRequest, existingRides[idx])
    /\ existingRide' = existingRides[idx]
    /\ originalRoute' = None
    /\ pooledRoute' = None
    /\ compatibility' = None
    /\ idx' = idx + 1
    /\ UNCHANGED <<GOOGLE_MAPS_API_KEY, server, pools, op, pc, args, compatiblePools, nearbyDrivers, result,
                   calls>>

\* Lines 73-76 and 229-241: getRouteDetails sends its request and waits.
RequestRoute ==
    /\ op = "findAvailablePools" /\ pc = "loop" /\ idx <= Len(existingRides)
    /\ ~SkipsRide(rideRequest, existingRides[idx])
    /\ GOOGLE_MAPS_API_KEY # ""
    /\ existingRide' = existingRides[idx]
    /\ originalRoute' = None
    /\ pooledRoute' = None
    /\ compatibility' = None
    /\ pc' = "await"
    /\ work' = [work EXCEPT !.routes = @ + 1, !.requests = @ + 1]
    /\ UNCHANGED <<GOOGLE_MAPS_API_KEY, server, pools, op, args, idx, compatiblePools, nearbyDrivers, result,
                   points, providerResponse, caller>>

\* Evaluate with a missing ordering ending the loop instead of the iteration.
Evaluate_StopsWithoutOrder(response) ==
    \E ride \in {existingRides[idx]} :
    \E original \in {getRouteDetails(GOOGLE_MAPS_API_KEY, response,
                         ride.pickup_location, ride.destination_location)},
       pooled \in {getOptimalPoolRoute(rideRequest, ride)} :
    \E compat \in {CompatibilityResult(rideRequest, ride, original, pooled)} :
        /\ existingRide' = ride
        /\ originalRoute' = original
        /\ pooledRoute' = pooled
        /\ compatibility' = compat
        /\ compatiblePools' =
              IF compat.isCompatible
              THEN Append(compatiblePools, PoolEntry(rideRequest, ride, compat))
              ELSE compatiblePools
        /\ idx' = IF pooled = NoRoute THEN Len(existingRides) + 1 ELSE idx + 1
        /\ pc' = "loop"
        /\ work' = [work EXCEPT !.routes = IF pc = "loop" THEN @ + 1 ELSE @,
                                !.orders = @ + 1,
                                !.scores = IF pooled = NoRoute THEN @ ELSE @ + 1]
        /\ UNCHANGED <<GOOGLE_MAPS_API_KEY, server, pools, op, args, nearbyDrivers, result,
                       points, providerResponse, caller>>

\* Lines 37-60: the rest of the iteration, once the solo route is known.
\* Each value is computed once and bound, as the code's const does.
Evaluate(response) ==
    \E ride \in {existingRides[idx]} :
    \E original \in {getRouteDetails(GOOGLE_MAPS_API_KEY, response,
                         ride.pickup_location, ride.destination_location)},
       pooled \in {getOptimalPoolRoute(rideRequest, ride)} :
    \E compat \in {CompatibilityResult(rideRequest, ride, original, pooled)} :
        /\ existingRide' = ride
        /\ originalRoute' = original
        /\ pooledRoute' = pooled
        /\ compatibility' = compat
        /\ compatiblePools' =
              IF compat.isCompatible
              THEN Append(compatiblePools, PoolEntry(rideRequest, ride, compat))
              ELSE compatiblePools
        /\ idx' = idx + 1
        /\ pc' = "loop"
        /\ work' = [work EXCEPT !.routes = IF pc = "loop" THEN @ + 1 ELSE @,
                                !.orders = @ + 1,
                                !.scores = IF pooled = NoRoute THEN @ ELSE @ + 1]
        /\ UNCHANGED <<GOOGLE_MAPS_API_KEY, server, pools, op, args, nearbyDrivers, result,
                       points, providerResponse, caller>>

\* No key: no request is made and the fallback estimate is used at once.
EvaluateWithoutProvider ==
    /\ op = "findAvailablePools" /\ pc = "loop" /\ idx <= Len(existingRides)
    /\ ~SkipsRide(rideRequest, existingRides[idx])
    /\ GOOGLE_MAPS_API_KEY = ""
    /\ Evaluate([kind |-> "error"])

\* The provider's answer, or its failure, arrives.
EvaluateOnResponse ==
    /\ op = "findAvailablePools" /\ pc = "await"
    /\ \E response \in ProviderResponses : Evaluate(response)

\* Line 64: the loop is over; sort and return.
ReturnPools ==
    /\ op = "findAvailablePools" /\ pc = "loop" /\ idx > Len(existingRides)
    /\ result' \in SortByScore(compatiblePools)
    /\ pc' = "done"
    /\ UNCHANGED <<GOOGLE_MAPS_API_KEY, server, pools, op, args, idx, compatiblePools, locals, nearbyDrivers,
                   calls>>

(***************************************************************************)
(* calculateRouteCompatibility(newRide, existingRide), called directly.    *)
(***************************************************************************)
CallCalculateRouteCompatibility ==
    /\ pc = "idle"
    /\ \E newRide \in RouteRides, ride \in RouteRides :
          /\ rideRequest' = newRide
          /\ existingRide' = ride
          /\ caller' = <<newRide, << >>, << >> >>
    /\ op' = "calculateRouteCompatibility"
    /\ pc' = IF GOOGLE_MAPS_API_KEY # "" THEN "await" ELSE "fallback"
    /\ work' = [NoWork EXCEPT !.routes = 1,
                              !.requests = IF GOOGLE_MAPS_API_KEY # "" THEN 1 ELSE 0]
    /\ UNCHANGED <<GOOGLE_MAPS_API_KEY, server, pools, existingRides, others, idx, compatiblePools,
                   originalRoute, pooledRoute, compatibility, result, points,
                   providerResponse>>

ReturnCompatibility ==
    /\ op = "calculateRouteCompatibility" /\ pc \in {"await", "fallback"}
    /\ \E response \in IF pc = "await" THEN ProviderResponses ELSE {[kind |-> "error"]} :
          \E original \in {getRouteDetails(GOOGLE_MAPS_API_KEY, response,
                              existingRide.pickup_location, existingRide.destination_location)},
             pooled \in {getOptimalPoolRoute(rideRequest, existingRide)} :
          \E compat \in {CompatibilityResult(rideRequest, existingRide, original, pooled)} :
              /\ originalRoute' = original
              /\ pooledRoute' = pooled
              /\ compatibility' = compat
              /\ result' = compat
              /\ work' = [work EXCEPT !.orders = @ + 1,
                                      !.scores = IF pooled = NoRoute THEN @ ELSE @ + 1]
    /\ pc' = "done"
    /\ UNCHANGED <<GOOGLE_MAPS_API_KEY, server, pools, op, args, idx, existingRide, compatiblePools,
                   nearbyDrivers, points, providerResponse, caller>>

(***************************************************************************)
(* calculateFareShare(newRide, existingRide, compatibility).               *)
(***************************************************************************)
CallCalculateFareShare ==
    /\ pc = "idle"
    /\ \E baseFare \in 1..MaxFare, detourDistance \in Detours \cup NegativeDetours :
          /\ rideRequest' = [estimated_fare |-> baseFare]
          /\ compatibility' = [detourDistance |-> detourDistance]
          /\ result' = calculateFareShare(rideRequest', None, compatibility')
          /\ caller' = <<[estimated_fare |-> baseFare], << >>, << >> >>
    /\ op' = "calculateFareShare"
    /\ pc' = "done"
    /\ UNCHANGED <<GOOGLE_MAPS_API_KEY, server, pools, existingRides, availableDrivers, idx,
                   existingRide, compatiblePools, originalRoute, pooledRoute,
                   nearbyDrivers, points, providerResponse, work>>

\* CallAssignOptimalDriver with the sort of line 340 applied to the caller's
\* own list.
CallAssignOptimalDriver_SortsCallersList ==
    /\ pc = "idle"
    /\ \E drivers \in DriverLists :
          /\ rideRequest' = [pickup_location |-> Point(0)]
          /\ availableDrivers' =
                StableSort(drivers,
                    [k \in 1..Len(drivers) |->
                        calculateDistance(Point(0), drivers[k].location)])
          /\ nearbyDrivers' = findAvailableDrivers(rideRequest', drivers)
          /\ result' = assignOptimalDriver(rideRequest', drivers)
          /\ caller' = <<[pickup_location |-> Point(0)], << >>, drivers>>
    /\ op' = "assignOptimalDriver"
    /\ pc' = "done"
    /\ UNCHANGED <<GOOGLE_MAPS_API_KEY, server, pools, existingRides, idx, compatiblePools, locals,
                   points, providerResponse, work>>

(***************************************************************************)
(* assignOptimalDriver(rideRequest, availableDrivers), and the call of     *)
(* findAvailableDrivers it starts with.                                    *)
(***************************************************************************)
CallAssignOptimalDriver ==
    /\ pc = "idle"
    /\ \E drivers \in DriverLists :
          /\ rideRequest' = [pickup_location |-> Point(0)]
          /\ availableDrivers' = drivers
          /\ nearbyDrivers' = findAvailableDrivers(rideRequest', drivers)
          /\ result' = assignOptimalDriver(rideRequest', drivers)
          /\ caller' = <<[pickup_location |-> Point(0)], << >>, drivers>>
    /\ op' = "assignOptimalDriver"
    /\ pc' = "done"
    /\ UNCHANGED <<GOOGLE_MAPS_API_KEY, server, pools, existingRides, idx, compatiblePools, locals,
                   points, providerResponse, work>>

(***************************************************************************)
(* findAvailableDrivers(rideRequest, availableDrivers), called directly,   *)
(* with coordinates at and beyond the pole.                                *)
(***************************************************************************)
CallFindAvailableDrivers ==
    /\ pc = "idle"
    /\ \E request \in PolarRequests, drivers \in PolarDriverLists :
          /\ rideRequest' = request
          /\ availableDrivers' = drivers
          /\ nearbyDrivers' = findAvailableDrivers(request, drivers)
          /\ result' = nearbyDrivers'
          /\ caller' = <<request, << >>, drivers>>
    /\ op' = "findAvailableDrivers"
    /\ pc' = "done"
    /\ UNCHANGED <<GOOGLE_MAPS_API_KEY, server, pools, existingRides, idx, compatiblePools, locals,
                   points, providerResponse, work>>

(***************************************************************************)
(* calculateDistance(point1, point2), called directly.                     *)
(***************************************************************************)
CallCalculateDistance ==
    /\ pc = "idle"
    /\ \E pair \in DistancePairs :
          /\ points' = pair
          /\ result' = calculateDistance(pair[1], pair[2])
    /\ op' = "calculateDistance"
    /\ pc' = "done"
    /\ UNCHANGED <<GOOGLE_MAPS_API_KEY, server, pools, args, idx, compatiblePools, locals, nearbyDrivers,
                   providerResponse, work, caller>>

(***************************************************************************)
(* getRouteDetails(origin, destination), called directly.                  *)
(***************************************************************************)
\* Lines 229-241: with a key, the one request is sent and awaited.
CallGetRouteDetails ==
    /\ pc = "idle"
    /\ \E origin \in RoutePoints, destination \in RoutePoints :
          points' = <<origin, destination>>
    /\ op' = "getRouteDetails"
    /\ pc' = IF GOOGLE_MAPS_API_KEY # "" THEN "await" ELSE "fallback"
    /\ work' = [NoWork EXCEPT !.routes = 1,
                              !.requests = IF GOOGLE_MAPS_API_KEY # "" THEN 1 ELSE 0]
    /\ UNCHANGED <<GOOGLE_MAPS_API_KEY, server, pools, args, idx, compatiblePools, locals, nearbyDrivers,
                   result, providerResponse, caller>>

\* ReceiveRouteResponse sending the request again when it has failed.
ReceiveRouteResponse_Retries ==
    /\ op = "getRouteDetails" /\ pc = "await"
    /\ \E response \in ProviderResponses :
          /\ providerResponse' = response
          /\ IF response.kind = "error" /\ work.requests < 3
             THEN /\ work' = [work EXCEPT !.requests = @ + 1]
                  /\ UNCHANGED <<pc, result>>
             ELSE /\ result' = getRouteDetails(GOOGLE_MAPS_API_KEY, response,
                                               points[1], points[2])
                  /\ pc' = "done"
                  /\ UNCHANGED work
    /\ UNCHANGED <<GOOGLE_MAPS_API_KEY, server, pools, op, args, idx, compatiblePools, locals, nearbyDrivers,
                   points, caller>>

\* Lines 243-257: the provider's answer, or the failure of the request,
\* decides between lines 247-252 and the catch block.
ReceiveRouteResponse ==
    /\ op = "getRouteDetails" /\ pc = "await"
    /\ \E response \in ProviderResponses :
          /\ providerResponse' = response
          /\ result' = getRouteDetails(GOOGLE_MAPS_API_KEY, response, points[1], points[2])
    /\ pc' = "done"
    /\ UNCHANGED <<GOOGLE_MAPS_API_KEY, server, pools, op, args, idx, compatiblePools, locals, nearbyDrivers,
                   points, work, caller>>

\* Lines 259-266 without a key: no request, the fallback at once.
ReturnFallbackRoute ==
    /\ op = "getRouteDetails" /\ pc = "fallback"
    /\ result' = FallbackRoute(points[1], points[2])
    /\ pc' = "done"
    /\ UNCHANGED <<GOOGLE_MAPS_API_KEY, server, pools, op, args, idx, compatiblePools, locals, nearbyDrivers,
                   points, providerResponse, work, caller>>

(***************************************************************************)
(* The caller takes the result; the service keeps nothing of the call.     *)
(***************************************************************************)
Finish ==
    /\ pc = "done"
    /\ op' = "none"
    /\ pc' = "idle"
    /\ rideRequest' = None
    /\ existingRides' = << >>
    /\ availableDrivers' = << >>
    /\ idx' = 0
    /\ existingRide' = None
    /\ compatiblePools' = << >>
    /\ originalRoute' = None
    /\ pooledRoute' = None
    /\ compatibility' = None
    /\ nearbyDrivers' = << >>
    /\ result' = None
    /\ points' = None
    /\ providerResponse' = None
    /\ work' = NoWork
    /\ caller' = None
    /\ UNCHANGED <<GOOGLE_MAPS_API_KEY, server, pools>>

Next ==
    \/ CallFindAvailablePools
    \/ SkipRide
    \/ RequestRoute
    \/ EvaluateWithoutProvider
    \/ EvaluateOnResponse
    \/ ReturnPools
    \/ CallCalculateRouteCompatibility
    \/ ReturnCompatibility
    \/ CallCalculateFareShare
    \/ CallAssignOptimalDriver
    \/ CallFindAvailableDrivers
    \/ CallCalculateDistance
    \/ CallGetRouteDetails
    \/ ReceiveRouteResponse
    \/ ReturnFallbackRoute
    \/ Finish

Spec == Init /\ [][Next]_vars

\* The steps the service takes by itself: everything but the start of a call,
\* the caller's taking of the result, and the provider's answer, which no
\* timeout replaces (axios.get is given none at lines 230-241).
ServiceStep ==
    \/ SkipRide
    \/ RequestRoute
    \/ EvaluateWithoutProvider
    \/ ReturnPools
    \/ ReturnFallbackRoute
    \/ (pc = "fallback" /\ ReturnCompatibility)

\* The service keeps running; the provider may or may not answer.
LiveSpec == Spec /\ WF_vars(ServiceStep)

(***************************************************************************)
(* The server (part_000): ride booking, the dispatch timer and the         *)
(* drivers' requests.  Every handler is an async function: it runs alone   *)
(* from one await to the next, and between two of its awaits any other     *)
(* handler or timer may run.  One action is one such stretch, ending with  *)
(* the database operation it awaits taking effect, or with the response.   *)
(* save() writes the fields the handler assigned and no other.             *)
(***************************************************************************)
\* Line 243: the filter { status: 'online', current_ride: null }.
Unassigned(driver) == driver.status = "online" /\ driver.current_ride = Null

\* Line 243: Driver.find without a sort, the documents in the order of the
\* collection, which is the order in which they were inserted.
FindUnassigned ==
    LET found == SelectSeq(DriverOrder, LAMBDA d : Unassigned(Driver[d]))
    IN  [i \in 1..Len(found) |-> [id |-> found[i]] @@ Driver[found[i]]]

\* The call takes a new request when it has none, has answered the last, or
\* lost it.
Free(c) == handler[c].pc \in {"idle", "responded", "lost"}

\* res.status(code).json(...): the request is answered.
Responded(kind, code) == [NoRequest EXCEPT !.kind = kind, !.pc = "responded", !.code = code]

\* A save() has settled and the handler has not run on: it will answer with
\* the code.
Saved(kind, code) == [NoRequest EXCEPT !.kind = kind, !.pc = "answer", !.code = code]

\* POST /api/v1/drivers/register, lines 472-476: a driver with the phone or
\* the email of the body is looked for, and the answer is 409 if there is
\* one.  A driver of the model has one name, one phone and one email.
RegisterFindDriver(c, d) ==
    /\ process = "running"
    /\ Free(c)
    /\ handler' = [handler EXCEPT ![c] =
                      IF Driver[d].status # "none"
                      THEN Responded("register", 409)
                      ELSE [NoRequest EXCEPT !.kind = "register", !.pc = "save", !.caller = d]]
    /\ UNCHANGED <<matcher, pools, Ride, Driver, DriverOrder, dispatch, process>>

\* Lines 479-493, driver.save(): the document is inserted.  Phone and email
\* are unique (Driver.js lines 12 and 17): the save of a driver that was
\* stored since line 473 is rejected, and the handler will answer 500
\* (lines 501-504) instead of 201.
RegisterSave(c) ==
    /\ process = "running"
    /\ handler[c].kind = "register" /\ handler[c].pc = "save"
    /\ IF Driver[handler[c].caller].status = "none"
       THEN /\ Driver' = [Driver EXCEPT ![handler[c].caller] = Registered]
            /\ DriverOrder' = Append(DriverOrder, handler[c].caller)
            /\ handler' = [handler EXCEPT ![c] = Saved("register", 201)]
       ELSE /\ UNCHANGED <<Driver, DriverOrder>>
            /\ handler' = [handler EXCEPT ![c] = Saved("register", 500)]
    /\ UNCHANGED <<matcher, pools, Ride, dispatch, process>>

\* Lines 494-504: the handler runs on after the save and answers.
RegisterRespond(c) ==
    /\ process = "running"
    /\ handler[c].kind = "register" /\ handler[c].pc = "answer"
    /\ handler' = [handler EXCEPT ![c] = Responded("register", handler[c].code)]
    /\ UNCHANGED <<matcher, pools, Ride, Driver, DriverOrder, dispatch, process>>

\* POST /api/v1/auth/login of the driver app, lines 138-141 and 160-166:
\* the driver of that name is looked for, and a stored driver gets its
\* token.
LoginFindDriver(c, d) ==
    /\ process = "running"
    /\ Free(c)
    /\ handler' = [handler EXCEPT ![c] =
                      IF Driver[d].status # "none"
                      THEN Responded("login", 200)
                      ELSE [NoRequest EXCEPT !.kind = "login", !.pc = "save", !.caller = d]]
    /\ UNCHANGED <<matcher, pools, Ride, Driver, DriverOrder, dispatch, process>>

\* Lines 142-157, driver.save(): a driver that was not found is inserted,
\* under the email made of its name; the save of a driver that was stored
\* since line 140 is rejected, and the handler will answer 500 (lines
\* 189-192) instead of 200.
LoginSave(c) ==
    /\ process = "running"
    /\ handler[c].kind = "login" /\ handler[c].pc = "save"
    /\ IF Driver[handler[c].caller].status = "none"
       THEN /\ Driver' = [Driver EXCEPT ![handler[c].caller] = Registered]
            /\ DriverOrder' = Append(DriverOrder, handler[c].caller)
            /\ handler' = [handler EXCEPT ![c] = Saved("login", 200)]
       ELSE /\ UNCHANGED <<Driver, DriverOrder>>
            /\ handler' = [handler EXCEPT ![c] = Saved("login", 500)]
    /\ UNCHANGED <<matcher, pools, Ride, dispatch, process>>

\* Lines 160-166 and 189-192: the handler runs on after the save and
\* answers.
LoginRespond(c) ==
    /\ process = "running"
    /\ handler[c].kind = "login" /\ handler[c].pc = "answer"
    /\ handler' = [handler EXCEPT ![c] = Responded("login", handler[c].code)]
    /\ UNCHANGED <<matcher, pools, Ride, Driver, DriverOrder, dispatch, process>>

\* POST /api/v1/rides, lines 223-237, ride.save(): the ride is inserted as
\* PENDING, under the next unused id.
BookSave(c, r) ==
    /\ process = "running"
    /\ Free(c)
    /\ Ride[r].status = "none"
    /\ r = "r2" => Ride["r1"].status # "none"
    /\ Ride' = [Ride EXCEPT ![r] = Booked]
    /\ handler' = [handler EXCEPT ![c] =
                      [NoRequest EXCEPT !.kind = "book", !.pc = "timer", !.target = r]]
    /\ UNCHANGED <<matcher, pools, Driver, DriverOrder, dispatch, process>>

\* Lines 240 and 291-297: the handler runs on after the save, sets the
\* dispatch timer of the ride and answers 201.
BookSetTimer(c) ==
    /\ process = "running"
    /\ handler[c].kind = "book" /\ handler[c].pc = "timer"
    /\ dispatch' = [dispatch EXCEPT ![handler[c].target] = [NoDispatch EXCEPT !.pc = "armed"]]
    /\ handler' = [handler EXCEPT ![c] = Responded("book", 201)]
    /\ UNCHANGED <<matcher, pools, Ride, Driver, DriverOrder, process>>

\* Lines 240-243: the timer fires and reads the unassigned online drivers.
DispatchFind(r) ==
    /\ process = "running"
    /\ dispatch[r].pc = "armed"
    /\ dispatch' = [dispatch EXCEPT ![r].pc = "found",
                                    ![r].availableDrivers = FindUnassigned]
    /\ UNCHANGED <<matcher, pools, Ride, Driver, DriverOrder, handler, process>>

\* The timer has returned.
Returned(outcome) == [NoDispatch EXCEPT !.pc = "done", !.outcome = outcome]

\* Lines 245-247, ride.save(): no driver was found; the timer's document,
\* made when the ride was booked, gets the status NO_DRIVERS_AVAILABLE and
\* the status is stored.
DispatchNoDriversSave(r) ==
    /\ process = "running"
    /\ dispatch[r].pc = "found"
    /\ Len(dispatch[r].availableDrivers) = 0
    /\ Ride' = [Ride EXCEPT ![r].status = "NO_DRIVERS_AVAILABLE"]
    /\ dispatch' = [dispatch EXCEPT ![r].pc = "saved"]
    /\ UNCHANGED <<matcher, pools, Driver, DriverOrder, handler, process>>

\* Lines 248-249: the timer runs on after the save and returns.
DispatchNoDriversReturn(r) ==
    /\ process = "running"
    /\ dispatch[r].pc = "saved"
    /\ dispatch' = [dispatch EXCEPT ![r] = Returned("no drivers")]
    /\ UNCHANGED <<matcher, pools, Ride, Driver, DriverOrder, handler, process>>

\* Lines 253-255: assignOptimalDriver returned null; nothing is written.
DispatchNoAssignment(r) ==
    /\ process = "running"
    /\ dispatch[r].pc = "found"
    /\ Len(dispatch[r].availableDrivers) > 0
    /\ assignOptimalDriver(BookedRequest, dispatch[r].availableDrivers) = NoAssignment
    /\ dispatch' = [dispatch EXCEPT ![r] = Returned("no assignment")]
    /\ UNCHANGED <<matcher, pools, Ride, Driver, DriverOrder, handler, process>>

\* MatchingService.js line 332, {...driver}, of a document: the copy has
\* the own enumerable properties of the document, which are its internals;
\* the schema paths are accessors of the prototype and are not copied.
SpreadOfDocument(document) == [id |-> Null, rating |-> Null, location |-> Null]

\* Lines 256-263: the driver put on the ride, read from the copy.
DriverOfAssignment(assignment) ==
    LET copy == SpreadOfDocument(assignment.driver.driver)
    IN  [id |-> copy.id, rating |-> copy.rating, current_location |-> copy.location]

\* Line 271 reads driver.current_location.latitude: a TypeError when there
\* is no current_location.
ThrowsTypeError(driver) == driver.current_location = Null

\* Line 267 assigns assignment.estimatedArrival, the string "n minutes", to
\* estimated_arrival, a Date path (part_002 line 76): no n makes it a date,
\* and every later save() of the document is rejected.
CastsToDate(estimatedArrival) == FALSE

\* A timer that was set, or was at an await, when the process exited: it
\* does not run.
LostTimer == [NoDispatch EXCEPT !.pc = "lost"]

\* A request that was at an await when the process exited: it is not
\* answered.
LostRequest == [NoRequest EXCEPT !.pc = "lost"]

\* Lines 253-271 and 285-288: an assignment was returned.  Line 271 throws
\* before the driver is marked (line 279); the catch sets the status
\* NO_DRIVERS_AVAILABLE on the timer's document and its save() is
\* rejected.  Nothing is written.  Nothing handles the rejection, and the
\* process (Node 18, Dockerfile line 2) exits: the timers that have not
\* returned and the requests that are not answered are lost.
DispatchThrows(r) ==
    /\ process = "running"
    /\ dispatch[r].pc = "found"
    /\ Len(dispatch[r].availableDrivers) > 0
    /\ \E assignment \in {assignOptimalDriver(BookedRequest, dispatch[r].availableDrivers)} :
          /\ assignment # NoAssignment
          /\ ThrowsTypeError(DriverOfAssignment(assignment))
          /\ ~CastsToDate(assignment.estimatedArrival)
    /\ dispatch' = [x \in RideIds |->
                       IF x = r THEN Returned("thrown")
                       ELSE IF dispatch[x].pc \in {"armed", "found", "saved"} THEN LostTimer
                       ELSE dispatch[x]]
    /\ handler' = [c \in Calls |-> IF Free(c) THEN handler[c] ELSE LostRequest]
    /\ process' = "exited"
    /\ UNCHANGED <<matcher, pools, Ride, Driver, DriverOrder>>

\* Lines 535-537: save() sends the paths that were modified.  status is
\* modified when the value assigned differs from the value read (Null: the
\* path is not sent); location is assigned a new object and is sent.
ModifiedStatus(driver, status) == IF driver.status = status THEN Null ELSE status

\* PUT /api/v1/drivers/status, lines 528-536: the driver is read, and the
\* answer is 404 if there is none; else status and location are assigned
\* on the document that was read.
StatusFindDriver(c, d, status) ==
    /\ process = "running"
    /\ Free(c)
    /\ handler' = [handler EXCEPT ![c] =
                      IF Driver[d].status = "none"
                      THEN Responded("status", 404)
                      ELSE [NoRequest EXCEPT !.kind = "status", !.pc = "save", !.caller = d,
                                             !.status = ModifiedStatus(Driver[d], status)]]
    /\ UNCHANGED <<matcher, pools, Ride, Driver, DriverOrder, dispatch, process>>

\* Line 537, driver.save(): the modified paths are stored.
StatusSave(c) ==
    /\ process = "running"
    /\ handler[c].kind = "status" /\ handler[c].pc = "save"
    /\ Driver' = [Driver EXCEPT ![handler[c].caller].status =
                                    IF handler[c].status = Null THEN @ ELSE handler[c].status,
                                ![handler[c].caller].location =
                                    DriverLocation(handler[c].caller)]
    /\ handler' = [handler EXCEPT ![c] = Saved("status", 200)]
    /\ UNCHANGED <<matcher, pools, Ride, DriverOrder, dispatch, process>>

\* Lines 539-543: the handler runs on after the save and answers.
StatusRespond(c) ==
    /\ process = "running"
    /\ handler[c].kind = "status" /\ handler[c].pc = "answer"
    /\ handler' = [handler EXCEPT ![c] = Responded("status", handler[c].code)]
    /\ UNCHANGED <<matcher, pools, Ride, Driver, DriverOrder, dispatch, process>>

\* PUT /api/v1/rides/:rideId/accept, lines 581-587: the driver must be
\* online and without a ride.
MayAccept(driver) == driver.status = "online" /\ driver.current_ride = Null

\* Lines 576-587: the driver is read and tested; the answer is 404 if there
\* is none.
AcceptFindDriver(c, d, r) ==
    /\ process = "running"
    /\ Free(c)
    /\ handler' = [handler EXCEPT ![c] =
                      IF Driver[d].status = "none"
                      THEN Responded("accept", 404)
                      ELSE IF MayAccept(Driver[d])
                      THEN [NoRequest EXCEPT !.kind = "accept", !.pc = "ride", !.caller = d,
                                             !.target = r]
                      ELSE Responded("accept", 400)]
    /\ UNCHANGED <<matcher, pools, Ride, Driver, DriverOrder, dispatch, process>>

\* Lines 591-601, the answer to the ride that was read: 404 if there is
\* none, 400 if its status is not PENDING, and 400 for every other ride:
\* driver is a nested path of the schema (part_002 lines 44-60), ride.driver
\* is an object whatever is stored, and line 599 refuses it as assigned.
AcceptAnswer(ride) == IF ride.status = "none" THEN 404 ELSE 400

\* Lines 590-620 with a handler that tests neither the status (line 595)
\* nor the driver (line 599) of the ride it read, and stores it as
\* DRIVER_ASSIGNED.
AcceptFindRide_AssignsAnyRide(c) ==
    /\ process = "running"
    /\ handler[c].kind = "accept" /\ handler[c].pc = "ride"
    /\ Ride' = [Ride EXCEPT ![handler[c].target].status =
                   IF @ = "none" THEN @ ELSE "DRIVER_ASSIGNED"]
    /\ handler' = [handler EXCEPT ![c] = Responded("accept", 200)]
    /\ UNCHANGED <<matcher, pools, Driver, DriverOrder, dispatch, process>>

\* Lines 590-601: the ride is read and the request refused.
AcceptFindRide(c) ==
    /\ process = "running"
    /\ handler[c].kind = "accept" /\ handler[c].pc = "ride"
    /\ handler' = [handler EXCEPT ![c] =
                      Responded("accept", AcceptAnswer(Ride[handler[c].target]))]
    /\ UNCHANGED <<matcher, pools, Ride, Driver, DriverOrder, dispatch, process>>

\* Lines 660-666 and 696-702, the answer to the ride that was read: 404 if
\* there is none, else 403: ride.driver?.id is an ObjectId or undefined,
\* req.userId a string, and !== of the two is true.
MoveAnswer(ride) == IF ride.status = "none" THEN 404 ELSE 403

\* PUT /api/v1/rides/:rideId/start, lines 655-666: the ride is read and
\* the request refused, whoever the caller is.
StartRide(c, r) ==
    /\ process = "running"
    /\ Free(c)
    /\ handler' = [handler EXCEPT ![c] = Responded("start", MoveAnswer(Ride[r]))]
    /\ UNCHANGED <<matcher, pools, Ride, Driver, DriverOrder, dispatch, process>>

\* PUT /api/v1/rides/:rideId/complete, lines 691-702: the ride is read and
\* the request refused, whoever the caller is.
CompleteRide(c, r) ==
    /\ process = "running"
    /\ Free(c)
    /\ handler' = [handler EXCEPT ![c] = Responded("complete", MoveAnswer(Ride[r]))]
    /\ UNCHANGED <<matcher, pools, Ride, Driver, DriverOrder, dispatch, process>>

ServerNext ==
    \/ \E c \in Calls, d \in DriverIds : RegisterFindDriver(c, d)
    \/ \E c \in Calls : RegisterSave(c)
    \/ \E c \in Calls : RegisterRespond(c)
    \/ \E c \in Calls, d \in DriverIds : LoginFindDriver(c, d)
    \/ \E c \in Calls : LoginSave(c)
    \/ \E c \in Calls : LoginRespond(c)
    \/ \E c \in Calls, r \in RideIds : BookSave(c, r)
    \/ \E c \in Calls : BookSetTimer(c)
    \/ \E r \in RideIds : DispatchFind(r)
    \/ \E r \in RideIds : DispatchNoDriversSave(r)
    \/ \E r \in RideIds : DispatchNoDriversReturn(r)
    \/ \E r \in RideIds : DispatchNoAssignment(r)
    \/ \E r \in RideIds : DispatchThrows(r)
    \/ \E c \in Calls, d \in DriverIds, status \in DriverStatuses : StatusFindDriver(c, d, status)
    \/ \E c \in Calls : StatusSave(c)
    \/ \E c \in Calls : StatusRespond(c)
    \/ \E c \in Calls, d \in DriverIds, r \in RideIds : AcceptFindDriver(c, d, r)
    \/ \E c \in Calls : AcceptFindRide(c)
    \/ \E c \in Calls, r \in RideIds : StartRide(c, r)
    \/ \E c \in Calls, r \in RideIds : CompleteRide(c, r)

\* The server is studied with the key unset.
ServerInit == Init /\ GOOGLE_MAPS_API_KEY = ""

ServerSpec == ServerInit /\ [][ServerNext]_vars

\* No operation of the server stores a driver on a ride or a ride on a
\* driver: lines 279 and 618 are behind the refusals above.
NothingAssigned ==
    /\ \A r \in RideIds : Ride[r].driver = Null
    /\ \A d \in DriverIds : Driver[d].current_ride = Null

(***************************************************************************)
(* The server (part_000): pool-join requests.                              *)
(***************************************************************************)
\* PUT /pools/requests/:requestId/accept, lines 797-801: the rider of the
\* ride and its pool passengers are three or more, "Ride is full".
RideIsFull(ride) == 1 + Len(ride.pool_passengers) >= 3

\* POST /api/v1/pools/:poolId/join with a handler that stores the request
\* under the id of the request made for that ride before (an upsert): a
\* request that was decided is PENDING again.
JoinPool_Upserts(q, r) ==
    /\ process = "running"
    /\ (Pool[q].status = "none" \/ Pool[q].poolId = r)
    /\ \E i \in 1..Len(RequestOrder) :
          /\ RequestOrder[i] = q
          /\ \A j \in 1..(i - 1) : Pool[RequestOrder[j]].status # "none"
    /\ Pool' = [Pool EXCEPT ![q] = [status |-> "PENDING", poolId |-> r]]
    /\ UNCHANGED <<matcher, server>>

\* POST /api/v1/pools/:poolId/join, lines 384-402: the request is stored as
\* PENDING under the next unused id, for whatever poolId the path names.
JoinPool(q, r) ==
    /\ process = "running"
    /\ Pool[q].status = "none"
    /\ \E i \in 1..Len(RequestOrder) :
          /\ RequestOrder[i] = q
          /\ \A j \in 1..(i - 1) : Pool[RequestOrder[j]].status # "none"
    /\ Pool' = [Pool EXCEPT ![q] = [status |-> "PENDING", poolId |-> r]]
    /\ UNCHANGED <<matcher, server>>

\* What the path of a request names the join request by: the requestId of
\* line 389, which the responses give out, or the _id of the document.
RequestKeys == {"requestId", "_id"}

\* Lines 772-779, the answer to the driver that was read: 404 if there is
\* none, 400 if it has no current ride; 0: the handler goes on.
AcceptPoolDriverAnswer(driver) ==
    IF driver.status = "none" THEN 404
    ELSE IF driver.current_ride = Null THEN 400
    ELSE 0

\* Lines 782-790, Pool.findById(requestId), the answer to the join request
\* that was read: a requestId (nine characters of generateId) is no
\* ObjectId, the cast throws and the answer is 500 (lines 840-843); 404 if
\* there is no request, 400 if it is not PENDING; 0: the handler goes on.
AcceptPoolRequestAnswer(key, poolRequest) ==
    IF key = "requestId" THEN 500
    ELSE IF poolRequest.status = "none" THEN 404
    ELSE IF poolRequest.status # "PENDING" THEN 400
    ELSE 0

\* Lines 792-801, Ride.findById(driver.current_ride), the answer to the
\* ride that was read: 404 if there is none, 400 if it is full; 0: the
\* handler goes on.
AcceptPoolRideAnswer(ride) ==
    IF ride.status = "none" THEN 404
    ELSE IF RideIsFull(ride) THEN 400
    ELSE 0

\* PUT /api/v1/pools/requests/:requestId/accept, lines 768-844, from the
\* request or from the await the handler stands at to its next await:
\*   the driver is read and tested (772-779);
\*   "request": the join request is read and tested (782-790);
\*   "ride": the driver's current ride is read and tested, the passenger is
\*     pushed and the status ACCEPTED assigned (792-819);
\*   "save": the saves of line 821, in either order: the passenger is
\*     appended to the stored ride, the status ACCEPTED is stored;
\*   "answer": the handler answers 200 (823-839).
\* No driver has a current ride (NothingAssigned): every request is
\* answered at line 774 or 777.
AcceptPool(c, d, q, key) ==
    /\ process = "running"
    /\ IF Free(c)
       THEN /\ handler' = [handler EXCEPT ![c] =
                   IF AcceptPoolDriverAnswer(Driver[d]) # 0
                   THEN Responded("accept pool", AcceptPoolDriverAnswer(Driver[d]))
                   ELSE [NoRequest EXCEPT !.kind = "accept pool", !.pc = "request",
                                          !.caller = d, !.target = q, !.key = key,
                                          !.ride = Driver[d].current_ride]]
            /\ UNCHANGED <<Ride, Pool>>
       ELSE /\ handler[c].kind = "accept pool"
            /\ handler[c].caller = d /\ handler[c].target = q /\ handler[c].key = key
            /\ CASE handler[c].pc = "request" ->
                        /\ handler' = [handler EXCEPT ![c] =
                               IF AcceptPoolRequestAnswer(key, Pool[q]) # 0
                               THEN Responded("accept pool", AcceptPoolRequestAnswer(key, Pool[q]))
                               ELSE [@ EXCEPT !.pc = "ride"]]
                        /\ UNCHANGED <<Ride, Pool>>
                 [] handler[c].pc = "ride" ->
                        /\ handler' = [handler EXCEPT ![c] =
                               LET ride == IF handler[c].ride \in RideIds
                                           THEN Ride[handler[c].ride]
                                           ELSE NoRide
                               IN  IF AcceptPoolRideAnswer(ride) # 0
                                   THEN Responded("accept pool", AcceptPoolRideAnswer(ride))
                                   ELSE [@ EXCEPT !.pc = "save",
                                                  !.saves = {"ride", "request"}]]
                        /\ UNCHANGED <<Ride, Pool>>
                 [] handler[c].pc = "save" ->
                        \E save \in handler[c].saves :
                            /\ Ride' = IF save = "ride"
                                       THEN [Ride EXCEPT ![handler[c].ride].pool_passengers =
                                                Append(@, q)]
                                       ELSE Ride
                            /\ Pool' = IF save = "request"
                                       THEN [Pool EXCEPT ![q].status = "ACCEPTED"]
                                       ELSE Pool
                            /\ handler' = [handler EXCEPT ![c] =
                                   IF handler[c].saves = {save}
                                   THEN [@ EXCEPT !.pc = "answer", !.saves = {},
                                                  !.code = 200]
                                   ELSE [@ EXCEPT !.saves = @ \ {save}]]
                 [] handler[c].pc = "answer" ->
                        /\ handler' = [handler EXCEPT ![c] = Responded("accept pool", 200)]
                        /\ UNCHANGED <<Ride, Pool>>
                 [] OTHER -> FALSE
    /\ UNCHANGED <<matcher, Driver, DriverOrder, dispatch, process>>

\* Lines 851-854, Pool.findById(requestId): a requestId (nine characters of
\* generateId) is no ObjectId, the cast throws and the answer is 500; an
\* _id finds the document or, if there is none, is answered 404.
RejectAnswer(key, poolRequest) ==
    IF key = "requestId" THEN 500
    ELSE IF poolRequest.status = "none" THEN 404
    ELSE 200

\* PUT /api/v1/pools/requests/:requestId/reject, lines 851-857: the join
\* request is read and the status REJECTED assigned, whatever the status
\* was.  The caller is not looked at.  The path status is modified unless
\* the document read was REJECTED; rejected_at is no path of the schema.
RejectFindRequest(c, d, q, key) ==
    /\ process = "running"
    /\ Free(c)
    /\ handler' = [handler EXCEPT ![c] =
                      IF RejectAnswer(key, Pool[q]) = 200
                      THEN [NoRequest EXCEPT !.kind = "reject", !.pc = "save", !.caller = d,
                                             !.target = q,
                                             !.status = IF Pool[q].status = "REJECTED"
                                                        THEN Null
                                                        ELSE "REJECTED"]
                      ELSE Responded("reject", RejectAnswer(key, Pool[q]))]
    /\ UNCHANGED <<matcher, pools, Ride, Driver, DriverOrder, dispatch, process>>

\* Line 858, poolRequest.save(): the status is stored if it was modified;
\* the handler waits for the save to settle.
RejectSave(c) ==
    /\ process = "running"
    /\ handler[c].kind = "reject" /\ handler[c].pc = "save"
    /\ Pool' = IF handler[c].status = Null
               THEN Pool
               ELSE [Pool EXCEPT ![handler[c].target].status = handler[c].status]
    /\ handler' = [handler EXCEPT ![c] = Saved("reject", 200)]
    /\ UNCHANGED <<matcher, Ride, Driver, DriverOrder, dispatch, process>>

\* Lines 861-870: the save has settled, the handler answers 200.
RejectRespond(c) ==
    /\ process = "running"
    /\ handler[c].kind = "reject" /\ handler[c].pc = "answer"
    /\ handler' = [handler EXCEPT ![c] = Responded("reject", handler[c].code)]
    /\ UNCHANGED <<matcher, pools, Ride, Driver, DriverOrder, dispatch, process>>

\* The requests of drivers for join requests, and the accept of a ride,
\* the one request that gives a driver a current ride.
PoolNext ==
    \/ \E q \in RequestIds, r \in RideIds : JoinPool(q, r)
    \/ \E c \in Calls, d \in DriverIds, q \in RequestIds, key \in RequestKeys :
           AcceptPool(c, d, q, key)
    \/ \E c \in Calls, d \in DriverIds, q \in RequestIds, key \in RequestKeys :
           RejectFindRequest(c, d, q, key)
    \/ \E c \in Calls : RejectSave(c)
    \/ \E c \in Calls : RejectRespond(c)
    \/ \E c \in Calls, d \in DriverIds, r \in RideIds : AcceptFindDriver(c, d, r)
    \/ \E c \in Calls : AcceptFindRide(c)

\* The state of the rides and drivers in which the join requests are made:
\* d2 registered and went online, 14.7 km from the pickup, d1 is not
\* stored, and r1 and r2 were booked; their timers found d2, got no
\* assignment and returned.  The process runs.
BothRidesBooked ==
    /\ process = "running"
    /\ Ride = [r \in RideIds |-> Booked]
    /\ Driver = [d \in DriverIds |->
                    IF d = "d2"
                    THEN [Registered EXCEPT !.status = "online", !.location = DriverLocation(d)]
                    ELSE NoDriver]
    /\ DriverOrder = <<"d2">>
    /\ dispatch = [r \in RideIds |-> Returned("no assignment")]
    /\ handler = [c \in Calls |->
                     IF c = 1 THEN Responded("status", 200) ELSE Responded("book", 201)]

PoolInit ==
    /\ GOOGLE_MAPS_API_KEY = ""
    /\ Cleared
    /\ BothRidesBooked
    /\ Pool = [q \in RequestIds |-> NoPoolRequest]

PoolSpec == PoolInit /\ [][PoolNext]_vars

(***************************************************************************)
(* Properties of the matching service.                                     *)
(***************************************************************************)
PoolsReturned == op = "findAvailablePools" /\ pc = "done"

\* A compatibility result has just been computed for (rideRequest, existingRide).
Evaluated ==
    /\ op \in {"findAvailablePools", "calculateRouteCompatibility"}
    /\ compatibility # None

AssignmentReturned == op = "assignOptimalDriver" /\ pc = "done"

\* The existing ride an entry of the result stands for.
RideOf(entry) == existingRides[entry.poolId]

IsFull(ride) == Len(ride.pool_passengers) >= 3

GenderExcluded(request, ride) ==
    \/ ride.female_only /\ request.user_gender # "female"
    \/ request.female_only /\ ride.user_gender # "female"

PickupDistanceOf(request, ride) ==
    calculateDistance(ride.pickup_location, request.pickup_location)

\* The verdict the fallback estimate gives for a candidate.
FallbackVerdict(request, ride) ==
    CompatibilityResult(request, ride,
        FallbackRoute(ride.pickup_location, ride.destination_location),
        getOptimalPoolRoute(request, ride))

\* C1: findAvailablePools never returns an entry for an existing ride whose
\* pool_passengers list already has three or more members.
C1_NoEntryForFullPool ==
    PoolsReturned =>
        \A k \in 1..Len(result) : ~IsFull(RideOf(result[k]))

\* A full ride was offered next to a ride that differs from it only in its
\* passenger list, and that other ride was returned.
C1_Witness ==
    /\ PoolsReturned
    /\ \E i \in 1..Len(existingRides), k \in 1..Len(result) :
          LET full == existingRides[i]
              twin == RideOf(result[k])
          IN  /\ IsFull(full)
              /\ ~IsFull(twin)
              /\ [full EXCEPT !.ride_id = 0, !.pool_passengers = << >>]
                   = [twin EXCEPT !.ride_id = 0, !.pool_passengers = << >>]

\* C2: a female_only existing ride is never returned to a requester whose
\* gender is not female, and a female_only request is never offered a ride
\* whose owner's gender is not female.
C2_FemaleOnlyRespected ==
    PoolsReturned =>
        \A k \in 1..Len(result) : ~GenderExcluded(rideRequest, RideOf(result[k]))

\* A ride with room, excluded only by the gender rule (its route would have
\* been compatible), is absent from the result.
C2_Witness ==
    /\ PoolsReturned
    /\ GOOGLE_MAPS_API_KEY = ""
    /\ \E i \in 1..Len(existingRides) :
          /\ GenderExcluded(rideRequest, existingRides[i])
          /\ ~IsFull(existingRides[i])
          /\ existingRides[i].allow_pooling
          /\ FallbackVerdict(rideRequest, existingRides[i]).isCompatible
          /\ \A k \in 1..Len(result) : result[k].poolId # i

\* Comparison of two scores as the numbers the program holds: every
\* comparison with NaN is false.
ScoreGeq(a, b) == a # NaN /\ b # NaN /\ a >= b
ScoreEq(a, b) == a # NaN /\ b # NaN /\ a = b

\* C3: the list returned by findAvailablePools is in non-increasing order of
\* compatibilityScore, and entries of equal score keep the relative order of
\* their rides in the input list.
C3_SortedByScore ==
    PoolsReturned =>
        \A k \in 1..(Len(result) - 1) :
            /\ ScoreGeq(result[k].compatibilityScore, result[k + 1].compatibilityScore)
            /\ ScoreEq(result[k].compatibilityScore, result[k + 1].compatibilityScore)
                  => result[k].poolId < result[k + 1].poolId

\* The two detours as numbers: the solo route's distance and duration are
\* numbers (a NaN detour satisfies no threshold).
DetoursAreNumbers == originalRoute.distance # NaN /\ originalRoute.duration # NaN

\* C4: when a pooled route exists, isCompatible is true exactly when
\* detourDistance <= 5 km, detourTime <= 15 min and pickupDistance <= 3 km;
\* every entry findAvailablePools returns satisfies the three thresholds.
C4_CompatibleIffThresholds ==
    /\ Evaluated /\ pooledRoute # NoRoute =>
          (compatibility.isCompatible <=>
              /\ DetoursAreNumbers
              /\ pooledRoute.distance - originalRoute.distance <= 500
              /\ pooledRoute.duration - originalRoute.duration <= 1500
              /\ PickupDistanceOf(rideRequest, existingRide) <= 300)
    /\ PoolsReturned =>
          \A k \in 1..Len(result) :
              /\ result[k].detourDistance <= 500
              /\ result[k].detourTime <= 15
              /\ PickupDistanceOf(rideRequest, RideOf(result[k])) <= 300

\* The detour time alone decides: distance detour and pickup distance are
\* within their thresholds and the candidate is refused.
C4_Witness ==
    /\ Evaluated /\ pooledRoute # NoRoute
    /\ ~compatibility.isCompatible
    /\ DetoursAreNumbers
    /\ pooledRoute.distance - originalRoute.distance <= 500
    /\ PickupDistanceOf(rideRequest, existingRide) <= 300
    /\ pooledRoute.duration - originalRoute.duration > 1500

\* C5: a candidate whose pickup is more than 3 km from the requester's pickup
\* gets isCompatible = false on every branch of the waypoint ordering (no
\* feasible ordering included) and is absent from findAvailablePools' result.
C5_FarPickupRefused ==
    /\ Evaluated /\ PickupDistanceOf(rideRequest, existingRide) > 300 =>
          ~compatibility.isCompatible
    /\ PoolsReturned =>
          \A i \in 1..Len(existingRides) :
              PickupDistanceOf(rideRequest, existingRides[i]) > 300 =>
                  \A k \in 1..Len(result) : result[k].poolId # i

\* Pickups 20 km apart on a pooled route whose distance and time detours are
\* both within their thresholds: the pickup distance alone refuses it.
C5_Witness ==
    /\ Evaluated /\ pooledRoute # NoRoute
    /\ PickupDistanceOf(rideRequest, existingRide) >= 2000
    /\ DetoursAreNumbers
    /\ pooledRoute.distance - originalRoute.distance <= 500
    /\ pooledRoute.duration - originalRoute.duration <= 1500
    /\ ~compatibility.isCompatible

\* C6: the compatibility score is an integer in 0..100 for all inputs, a solo
\* route of distance zero and a pooled route of distance zero included.
C6_ScoreInRange ==
    /\ Evaluated => compatibility.score \in 0..100
    /\ PoolsReturned =>
          \A k \in 1..Len(result) : result[k].compatibilityScore \in 0..100

FareShareReturned == op = "calculateFareShare" /\ pc = "done"

\* C7: for every positive baseFare and non-negative detourDistance,
\* 0.6 * baseFare <= fareShare < baseFare (fareShare is in tenths).
C7_FareShareBelowBaseFare ==
    FareShareReturned =>
        /\ 6 * rideRequest.estimated_fare <= result
        /\ result < 10 * rideRequest.estimated_fare

DistanceTo(driver) == calculateDistance(rideRequest.pickup_location, driver.location)

Eligible(driver) ==
    /\ driver.status = "online"
    /\ driver.current_ride = Null
    /\ DistanceTo(driver) <= 1000

\* C8: assignOptimalDriver returns null exactly when no driver is at once
\* online, without a current ride and within 10 km of the pickup.
C8_NullIffNoEligibleDriver ==
    AssignmentReturned =>
        (result = NoAssignment <=>
            \A i \in 1..Len(availableDrivers) : ~Eligible(availableDrivers[i]))

\* Null is returned although drivers were offered: one is online and free but
\* beyond 10 km, another is online and near but has a current ride.
C8_Witness ==
    /\ AssignmentReturned
    /\ result = NoAssignment
    /\ \E i, j \in 1..Len(availableDrivers) :
          /\ IsAvailable(availableDrivers[i])
          /\ DistanceTo(availableDrivers[i]) > 1000
          /\ availableDrivers[j].status = "online"
          /\ availableDrivers[j].current_ride # Null
          /\ DistanceTo(availableDrivers[j]) <= 1000

\* C9: findAvailableDrivers returns exactly the eligible drivers, each once,
\* in ascending order of distance to the pickup, drivers at equal distance
\* in their input order.
C9_EligibleDriversAscending ==
    AssignmentReturned =>
        /\ \A i \in 1..Len(availableDrivers) :
              Cardinality({k \in 1..Len(nearbyDrivers) : nearbyDrivers[k].driver.id = i})
                 = IF Eligible(availableDrivers[i]) THEN 1 ELSE 0
        /\ \A k \in 1..Len(nearbyDrivers) :
              /\ nearbyDrivers[k].driver.id \in 1..Len(availableDrivers)
              /\ nearbyDrivers[k].driver = availableDrivers[nearbyDrivers[k].driver.id]
              /\ nearbyDrivers[k].distanceToPickup = DistanceTo(nearbyDrivers[k].driver)
        /\ \A k \in 1..(Len(nearbyDrivers) - 1) :
              /\ DistanceTo(nearbyDrivers[k].driver) <= DistanceTo(nearbyDrivers[k + 1].driver)
              /\ DistanceTo(nearbyDrivers[k].driver) = DistanceTo(nearbyDrivers[k + 1].driver)
                    => nearbyDrivers[k].driver.id < nearbyDrivers[k + 1].driver.id

\* Two eligible drivers came back in the reverse of their input order.
C9_Witness ==
    /\ AssignmentReturned
    /\ Len(nearbyDrivers) >= 2
    /\ nearbyDrivers[1].driver.id > nearbyDrivers[2].driver.id

\* C10: the driver assignOptimalDriver selects is eligible and no eligible
\* driver is strictly nearer; the estimated arrival is the whole number of
\* minutes within half a minute of 3 minutes per km of the distance (2.1 km
\* gives 6, 3.5 km gives 10); rating plays no part: the selected driver is the
\* first of the nearest eligible drivers in input order.
C10_NearestEligibleDriver ==
    AssignmentReturned /\ result # NoAssignment =>
        LET selected == result.driver.driver
        IN  /\ selected.id \in 1..Len(availableDrivers)
            /\ selected = availableDrivers[selected.id]
            /\ Eligible(selected)
            /\ \A i \in 1..Len(availableDrivers) :
                  Eligible(availableDrivers[i]) =>
                      \/ DistanceTo(availableDrivers[i]) > DistanceTo(selected)
                      \/ /\ DistanceTo(availableDrivers[i]) = DistanceTo(selected)
                         /\ i >= selected.id
            /\ Abs(100 * result.estimatedArrival - 3 * DistanceTo(selected)) <= 50
            /\ DistanceTo(selected) = 210 => result.estimatedArrival = 6

\* A better-rated eligible driver at 9.8 km stands first in the list; the
\* driver at 2.1 km is selected, with an arrival of 6 minutes.
C10_Witness ==
    /\ AssignmentReturned
    /\ result # NoAssignment
    /\ Len(availableDrivers) >= 2
    /\ Eligible(availableDrivers[1])
    /\ DistanceTo(availableDrivers[1]) = 980
    /\ availableDrivers[1].rating > availableDrivers[2].rating
    /\ result.driver.driver.id = 2
    /\ DistanceTo(result.driver.driver) = 210
    /\ result.estimatedArrival = 6

RouteReturned == op = "getRouteDetails" /\ pc = "done"

\* C11: getRouteDetails never raises for valid coordinates; without
\* credentials, on a failed request and on an empty or malformed answer it
\* returns the fallback estimate (haversine distance, duration twice the
\* distance); only a well-formed answer yields the provider's distance and
\* duration.
C11_FallbackUnlessWellFormed ==
    RouteReturned =>
        IF providerResponse # None /\ providerResponse.kind = "ok"
        THEN /\ result.distance = providerResponse.distance \div 10
             /\ result.duration = (providerResponse.duration * 100) \div 60
        ELSE /\ result.distance = calculateDistance(points[1], points[2])
             /\ result.duration = 2 * result.distance

\* C12: a provider that times out or never answers does not block matching:
\* every findAvailablePools call eventually returns.
C12_PoolsEventuallyReturned ==
    (op = "findAvailablePools") ~> (op = "findAvailablePools" /\ pc = "done")

\* C13: when the request's pickup and destination equal the existing ride's,
\* the result has detourDistance 0, detourTime 0, score 100 and isCompatible
\* true.
C13_IdenticalTrips ==
    /\ Evaluated
    /\ rideRequest.pickup_location = existingRide.pickup_location
    /\ rideRequest.destination_location = existingRide.destination_location
    => /\ compatibility.isCompatible
       /\ compatibility.detourDistance = 0
       /\ compatibility.detourTime = 0
       /\ compatibility.score = 100

\* C14: a call of calculateDistance or findAvailableDrivers given a
\* coordinate outside its range fails with a validation error: it never
\* returns a distance or a driver list computed from that coordinate.
C14_InvalidCoordinateRejected ==
    /\ op = "calculateDistance" /\ ~(ValidPoint(points[1]) /\ ValidPoint(points[2]))
          => pc # "done"
    /\ /\ op = "findAvailableDrivers"
       /\ \/ ~ValidPoint(rideRequest.pickup_location)
          \/ \E i \in 1..Len(availableDrivers) : ~ValidPoint(availableDrivers[i].location)
       => pc # "done"

\* C15: findAvailablePools, findAvailableDrivers and assignOptimalDriver
\* leave the request, every ride record, every driver record and the order
\* of the lists as the caller gave them, and the instance's only state, the
\* API key, never changes.
C15_ArgumentsAndInstanceUntouched ==
    [][/\ GOOGLE_MAPS_API_KEY' = GOOGLE_MAPS_API_KEY
       /\ op' \in {"findAvailablePools", "findAvailableDrivers", "assignOptimalDriver"}
             => <<rideRequest', existingRides', availableDrivers'>> = caller']_vars

\* The result of findAvailablePools holds the second ride before the first,
\* and the caller's list is as it was.
C15_Witness ==
    /\ PoolsReturned
    /\ Len(result) = 2
    /\ result[1].poolId = 2
    /\ existingRides = caller[2]
    /\ existingRides[1].ride_id = 1

\* C16: an invocation of getRouteDetails sends at most one request to the
\* provider, none without credentials, and exactly one with credentials
\* whatever the outcome: a failure is not retried.
C16_AtMostOneRequest ==
    /\ work.requests <= work.routes
    /\ op = "getRouteDetails" =>
          /\ work.routes = 1
          /\ work.requests = IF GOOGLE_MAPS_API_KEY = "" THEN 0 ELSE 1

\* The request failed, the fallback was returned, and one request was sent.
C16_Witness ==
    /\ RouteReturned
    /\ providerResponse = [kind |-> "error"]
    /\ result = FallbackRoute(points[1], points[2])
    /\ work.requests = 1

FailsFilter(request, ride) ==
    \/ ~ride.allow_pooling
    \/ IsFull(ride)
    \/ GenderExcluded(request, ride)

\* The candidates the loop has gone past that passed the filters.
PassedSoFar ==
    {i \in 1..Len(existingRides) : i < idx /\ ~FailsFilter(rideRequest, existingRides[i])}

\* C17: in findAvailablePools the filters come before any route work: the
\* getRouteDetails calls are as many as the candidates that passed the
\* filters, and so are the waypoint orderings; no score is computed for any
\* other candidate.
C17_FiltersBeforeRouteWork ==
    op = "findAvailablePools" =>
        /\ work.routes = Cardinality(PassedSoFar) + (IF pc = "await" THEN 1 ELSE 0)
        /\ work.orders = Cardinality(PassedSoFar)
        /\ work.scores <= Cardinality(PassedSoFar)

\* Of two candidates one failed a filter and one passed, and one route was
\* requested.
C17_Witness ==
    /\ PoolsReturned
    /\ Len(existingRides) = 2
    /\ FailsFilter(rideRequest, existingRides[1])
    /\ ~FailsFilter(rideRequest, existingRides[2])
    /\ work.routes = 1
    /\ work.orders = 1

\* The ordering the heuristic gives for a request and an existing ride.
HeuristicOrder(request, ride) ==
    LET existingPickup == [location |-> ride.pickup_location, type |-> "pickup", passenger |-> "existing"]
        newPickup      == [location |-> request.pickup_location, type |-> "pickup", passenger |-> "new"]
        existingDrop   == [location |-> ride.destination_location, type |-> "drop", passenger |-> "existing"]
        newDrop        == [location |-> request.destination_location, type |-> "drop", passenger |-> "new"]
        pickupGap == calculateDistance(ride.pickup_location, request.pickup_location)
        dropGap   == calculateDistance(ride.destination_location, request.destination_location)
        extra     == calculateDistance(ride.pickup_location, request.pickup_location)
                     + calculateDistance(request.pickup_location, ride.destination_location)
                     - calculateDistance(ride.pickup_location, ride.destination_location)
    IN  CASE pickupGap < 200 /\ dropGap < 200 -> <<existingPickup, newPickup, existingDrop, newDrop>>
          [] pickupGap < 200 /\ dropGap >= 200 -> <<existingPickup, newPickup, newDrop, existingDrop>>
          [] pickupGap >= 200 /\ extra < 100 -> <<existingPickup, newPickup, existingDrop, newDrop>>
          [] OTHER -> NoOrder

\* C18: findOptimalWaypointOrder returns exactly the ordering of the stated
\* heuristic on the gaps between the pickups and between the drops, or no
\* ordering.
C18_WaypointHeuristic ==
    Evaluated => pooledRoute.waypoints = HeuristicOrder(rideRequest, existingRide)

\* Pickups less than 2 km apart and drops 2 km or more apart: the new
\* passenger is dropped first.
C18_Witness ==
    /\ Evaluated
    /\ PickupDistanceOf(rideRequest, existingRide) < 200
    /\ calculateDistance(existingRide.destination_location,
                         rideRequest.destination_location) >= 200
    /\ Len(pooledRoute.waypoints) = 4
    /\ pooledRoute.waypoints[3].passenger = "new"
    /\ pooledRoute.waypoints[4].passenger = "existing"

HasNoOrder(request, ride) ==
    findOptimalWaypointOrder(Waypoints(request, ride)) = NoOrder

\* C19: a candidate without a feasible ordering is a negative result, not an
\* error: calculateRouteCompatibility returns isCompatible false and score
\* 0, and findAvailablePools leaves the candidate out, returns its list and
\* has evaluated every other candidate that passed the filters.
C19_NoOrderIsNegativeResult ==
    /\ Evaluated /\ HasNoOrder(rideRequest, existingRide) =>
          compatibility = [isCompatible |-> FALSE, score |-> 0]
    /\ PoolsReturned =>
          /\ \A k \in 1..Len(result) : ~HasNoOrder(rideRequest, RideOf(result[k]))
          /\ work.orders =
                Cardinality({i \in 1..Len(existingRides) :
                                ~FailsFilter(rideRequest, existingRides[i])})
          /\ GOOGLE_MAPS_API_KEY = "" =>
                \A i \in 1..Len(existingRides) :
                    /\ ~FailsFilter(rideRequest, existingRides[i])
                    /\ FallbackVerdict(rideRequest, existingRides[i]).isCompatible
                    => \E k \in 1..Len(result) : result[k].poolId = i

\* The first candidate has no ordering and the second, evaluated after it,
\* is returned.
C19_Witness ==
    /\ PoolsReturned
    /\ Len(existingRides) = 2
    /\ ~FailsFilter(rideRequest, existingRides[1])
    /\ HasNoOrder(rideRequest, existingRides[1])
    /\ Len(result) = 1
    /\ result[1].poolId = 2

\* The positions of an ordering at which a passenger's waypoint of a type is.
PositionsOf(order, passenger, type) ==
    {k \in 1..Len(order) : order[k].passenger = passenger /\ order[k].type = type}

\* C23: every non-null ordering of findOptimalWaypointOrder is a permutation
\* of the four waypoints it was given, each exactly once, that starts with
\* the existing ride's pickup followed by the new pickup; so every
\* passenger's pickup comes before that passenger's drop.
C23_OrderingIsPermutation ==
    Evaluated /\ pooledRoute.waypoints # NoOrder =>
        LET order == pooledRoute.waypoints
            given == Waypoints(rideRequest, existingRide)
        IN  /\ Len(order) = 4
            /\ \E p \in [1..4 -> 1..4] :
                   /\ \A i, j \in 1..4 : i # j => p[i] # p[j]
                   /\ \A i \in 1..4 : order[i] = given[p[i]]
            /\ order[1] = given[1]
            /\ order[2] = given[2]
            /\ \A passenger \in {"existing", "new"} :
                   \A i \in PositionsOf(order, passenger, "pickup"),
                      j \in PositionsOf(order, passenger, "drop") : i < j

\* An ordering that is not the order the waypoints were given in: the new
\* passenger is dropped before the existing one.
C23_Witness ==
    /\ Evaluated
    /\ Len(pooledRoute.waypoints) = 4
    /\ pooledRoute.waypoints[3] = Waypoints(rideRequest, existingRide)[4]
    /\ pooledRoute.waypoints[4] = Waypoints(rideRequest, existingRide)[3]

\* Math.round(0.75 * baseFare + 10 * detourDistance) in tenths, for a
\* detour in ckm.
RoundedFare(baseFare, detourDistance) == 10 * MathRound(15 * baseFare + 2 * detourDistance, 20)

\* C24: for a positive base fare and a non-negative detour the 60% floor
\* never takes effect, the fare share is round(0.75 * baseFare + 10 *
\* detourDistance); the floor decides the result only for a negative detour.
C24_FloorNeverDecides ==
    FareShareReturned =>
        /\ compatibility.detourDistance >= 0 =>
               result = RoundedFare(rideRequest.estimated_fare, compatibility.detourDistance)
        /\ result # RoundedFare(rideRequest.estimated_fare, compatibility.detourDistance) =>
               /\ compatibility.detourDistance < 0
               /\ result = 6 * rideRequest.estimated_fare

\* The smallest margin: a base fare of 3 and no detour, where the rounded
\* fare is 2 and the floor is 1.8.
C24_Witness ==
    /\ FareShareReturned
    /\ rideRequest.estimated_fare = 3
    /\ compatibility.detourDistance = 0
    /\ result = 20

\* A pooled route was evaluated against a solo route from the fallback.
EvaluatedOnFallback ==
    /\ Evaluated
    /\ pooledRoute # NoRoute
    /\ originalRoute.source = "fallback"

\* C25: when the existing ride's solo route is the fallback estimate, the
\* detour time is exactly twice the detour distance (minutes, km), so a
\* candidate within the 5 km detour threshold is within the 15 min one; the
\* time threshold alone refuses a candidate only on a provider's solo route.
C25_FallbackTimeIsTwiceDistance ==
    /\ EvaluatedOnFallback =>
          /\ pooledRoute.duration - originalRoute.duration
                 = 2 * (pooledRoute.distance - originalRoute.distance)
          /\ pooledRoute.distance - originalRoute.distance <= 500
                 => pooledRoute.duration - originalRoute.duration <= 1500
    /\ /\ Evaluated /\ pooledRoute # NoRoute /\ DetoursAreNumbers
       /\ pooledRoute.distance - originalRoute.distance <= 500
       /\ pooledRoute.duration - originalRoute.duration > 1500
       => originalRoute.source = "provider"

\* A candidate on the fallback with a detour of 1.4 km and 2.8 minutes,
\* found compatible.
C25_Witness ==
    /\ EvaluatedOnFallback
    /\ originalRoute.distance > 0
    /\ pooledRoute.distance - originalRoute.distance = 140
    /\ pooledRoute.duration - originalRoute.duration = 280
    /\ compatibility.isCompatible

(***************************************************************************)
(* Properties of the server.                                               *)
(***************************************************************************)
\* GET /pools/available, line 354: the rides the query lets through to
\* findAvailablePools have fewer than three pool passengers.
QueriedAsOpen(ride) == Len(ride.pool_passengers) < 3

\* C29: the capacity rule of the matcher and of the /pools/available query
\* agrees with the rule applied when a join is committed: every ride they
\* treat as having a free seat, and every pool findAvailablePools returns,
\* passes the accept handler's "Ride is full" check.
C29_OfferedPoolHasSeat ==
    PoolsReturned =>
        /\ \A i \in 1..Len(existingRides) :
               QueriedAsOpen(existingRides[i]) /\ ~IsFull(existingRides[i])
                   => ~RideIsFull(existingRides[i])
        /\ \A k \in 1..Len(result) : ~RideIsFull(RideOf(result[k]))

\* The edges of the ride's state machine.
AllowedEdge(from, to) ==
    \/ from = "PENDING" /\ to = "DRIVER_ASSIGNED"
    \/ from = "DRIVER_ASSIGNED" /\ to = "IN_PROGRESS"
    \/ from = "IN_PROGRESS" /\ to = "COMPLETED"
    \/ from = "PENDING" /\ to = "NO_DRIVERS_AVAILABLE"
    \/ from \in {"PENDING", "DRIVER_ASSIGNED", "IN_PROGRESS"} /\ to = "CANCELLED"

\* The ride was booked and the step gives it another stored status.
StatusChanges(r) == Ride[r].status # "none" /\ Ride'[r].status # Ride[r].status

DispatchCompleted(r) == dispatch[r].pc = "done"

\* C26: once the automatic dispatch of a booked ride has run to completion
\* the ride is no longer PENDING: DRIVER_ASSIGNED if assignOptimalDriver
\* returned an assignment, NO_DRIVERS_AVAILABLE if it returned none, also
\* when online unassigned drivers exist and all are farther than 10 km.
C26_DispatchLeavesPending ==
    \A r \in RideIds :
        DispatchCompleted(r) =>
            /\ Ride[r].status # "PENDING"
            /\ dispatch[r].outcome = "thrown" => Ride[r].status = "DRIVER_ASSIGNED"
            /\ dispatch[r].outcome # "thrown" => Ride[r].status = "NO_DRIVERS_AVAILABLE"

\* The statuses a pool-join request never leaves.
Terminal == {"ACCEPTED", "REJECTED"}

Rejects(d, q) ==
    \E c \in Calls :
        /\ handler[c].kind = "reject" /\ handler[c].pc = "save"
        /\ handler[c].caller = d /\ handler[c].target = q
        /\ handler'[c].pc = "answer"

\* C30: a pool passenger is appended only to the ride the request was made
\* for, and a reject changes a request only if the request is for the
\* rejecting driver's current ride.
C30_OnlyTheRidesDriverDecides ==
    [][/\ \A r \in RideIds :
              \A i \in 1..Len(Ride'[r].pool_passengers) :
                  Pool'[Ride'[r].pool_passengers[i]].poolId = r
       /\ \A q \in RequestIds :
              Pool[q].status = "PENDING" /\ Pool'[q].status = "REJECTED"
                  => \E d \in DriverIds :
                         Rejects(d, q) /\ Driver[d].current_ride = Pool[q].poolId]_vars

====
